---------------------------- MODULE Spec2Model ----------------------------
(***************************************************************************)
(* A model of the document-translation pipeline of ckst-translation:       *)
(*   - the batching engine        (src/src/openai_translate.py chunk_items)*)
(*   - the token-protection codec (src/src/text_utils.py)                  *)
(*   - the translation client     (OpenAITranslator.translate_batch)       *)
(*   - the PDF, PPTX and XLSX adapters                                     *)
(*                                                                         *)
(* A text is a sequence of one-character strings, so that lengths,         *)
(* substrings and substitutions are computed as the Python code computes   *)
(* them.  Every component has its own specification (SpecChunk, ...); the  *)
(* variables of the components a specification does not run stay idle.     *)
(***************************************************************************)
EXTENDS Integers, Sequences, FiniteSets, TLC

VARIABLES
    \* ---- chunk_items (openai_translate.py:17-34) ----
    ck_items,      \* the argument items: a sequence of TranslationItem
    ck_max_chars,  \* the argument max_chars
    ck_max_items,  \* the argument max_items
    ck_batches,    \* the returned list of batches
    ck_pc,         \* "call" before the call, "done" after the return
    \* ---- protect_text / restore_protected (text_utils.py:53-102) ----
    cd_text,       \* the source text
    cd_pt,         \* protect_text(cd_text): ProtectedText(text, placeholder_to_original)
    cd_mode,       \* how the translation rewrote the protected text
    cd_sent,       \* the rewritten protected text, as the backend returns it
    cd_restored,   \* restore_protected(cd_sent, cd_pt.placeholder_to_original)
    cd_pc,         \* "protect", "translate", "restore", "done"
    \* ---- OpenAITranslator.translate_batch / translate_text under @retry
    \*      (openai_translate.py:97-184) ----
    tb_fn,         \* the method called: "translate_batch" or "translate_text"
    tb_items,      \* translate_batch's argument items
    tb_text,       \* translate_text's argument text
    tb_glossary,   \* the kind of the glossary argument: "dict" or "str" (a non-empty str)
    tb_attempt,    \* the number of the current attempt, from 1
    tb_calls,      \* backend calls (client.responses.create) made by this invocation
    tb_failures,   \* attempts of this invocation that raised
    tb_protected,  \* the local dict protected (id -> ProtectedText) of the attempt
    tb_pt,         \* translate_text's local pt of the attempt
    tb_payload,    \* the local list payload of the attempt
    tb_resp,       \* the backend's response to the attempt's request
    tb_result,     \* the value returned to the caller
    tb_pc,         \* "body", "request", "parse", "backoff", "returned", "raised"
    \* ---- translate_pdf_bytes (pdf_translate.py:234-303) ----
    pdf_file_bytes,   \* the argument file_bytes
    pdf_lines,        \* the text lines of the document, as get_text("dict") gives them
    pdf_page_count,   \* doc.page_count
    pdf_has_cb,       \* whether progress_callback is given
    pdf_pages,        \* the pages of the open document
    pdf_pno,          \* the page the loop is at, from 0
    pdf_k,            \* the pass of the insertion loop, from 1
    pdf_translations, \* the local list translations of the page
    pdf_calls,        \* translate_text calls made
    pdf_out,          \* the returned bytes
    pdf_pc,           \* "call", "page", "translate", "redact", "apply", "insert",
                      \* "returned", "raised"
    \* ---- translate_pptx_bytes (pptx_translate.py:109-140) ----
    px_pptx_bytes,       \* the argument pptx_bytes
    px_max_chars,        \* the argument max_chars
    px_max_items,        \* the argument max_items
    px_prs,              \* the open presentation
    px_items,            \* the extracted items
    px_pointers,         \* the dict pointers (id -> PptxPointer)
    px_batches,          \* chunk_items(items, max_chars, max_items)
    px_b,                \* the batch the loop is at, from 1
    px_all_translations, \* the dict all_translations
    px_calls,            \* translate_batch calls made
    px_failed,           \* translate_batch calls that raised
    px_out,              \* the returned bytes
    px_pc,               \* "call", "translate", "save", "returned", "raised"
    \* ---- translate_workbook_bytes_openpyxl (xlsm_translate.py:126-247) ----
    xl_workbook_bytes,   \* the argument workbook_bytes
    xl_glossary,         \* the argument glossary
    xl_batch_size,       \* the argument batch_size
    xl_keep_vba,         \* the keep_vba of the load_workbook call that returned
    xl_wb,               \* the sheets of the open workbook
    xl_s_idx,            \* the sheet the loop is at, from 1
    xl_ranges,           \* the local ranges of the sheet
    xl_items,            \* the local items of the sheet
    xl_coords,           \* the local coords of the sheet
    xl_na_cor_targets,   \* the local na_cor_targets of the sheet
    xl_batches,          \* _chunk_list(items, batch_size)
    xl_b_idx,            \* the batch the loop is at, from 1
    xl_mapping,          \* the dict mapping of the sheet
    xl_progress,         \* the on_progress calls made, in order
    xl_calls,            \* translate_batch calls made
    xl_sent,             \* the items handed to translate_batch so far
    xl_failed,           \* translate_batch calls that raised
    xl_returned,         \* translate_batch calls of the sheet that returned
    xl_exc,              \* what raised the exception the adapter raised
    xl_out,              \* the returned bytes
    xl_pc,               \* "call", "sheet", "batches", "written", "afio", "cleared",
                         \* "returned", "raised"
    \* ---- translate_workbook_to_english (app.py:569-598) ----
    tw_file_bytes,       \* the argument file_bytes
    tw_wb_in,            \* the sheets of the loaded workbook wb_in
    tw_wb_out,           \* the sheets of the new workbook wb_out
    tw_idx,              \* the sheet of wb_in the loop is at, from 1
    tw_processed_any,    \* the local processed_any
    tw_calls,            \* client.responses.create calls made
    tw_exc,              \* the exception raised
    tw_out,              \* the returned bytes
    tw_pc,               \* "call", "sheet", "returned", "raised"
    \* ---- parse_glossary_lines, apply_glossary_hard (text_utils.py:33-50,
    \*      105-125) ----
    gl_raw,              \* the argument raw of parse_glossary_lines
    gl_text,             \* the argument text of apply_glossary_hard
    gl_glossary,         \* the glossary parse_glossary_lines returned
    gl_out,              \* the text apply_glossary_hard returned
    gl_pc,               \* "parse", "apply", "done"
    \* ---- normalize_and_translate_composition (app.py:83-157) ----
    nc_text,             \* the argument text
    nc_components,       \* the local components, as parsed from the text
    nc_out,              \* the returned composition
    nc_pc                \* "call", "done"

chunkVars == <<ck_items, ck_max_chars, ck_max_items, ck_batches, ck_pc>>

codecVars == <<cd_text, cd_pt, cd_mode, cd_sent, cd_restored, cd_pc>>

tbVars == <<tb_fn, tb_items, tb_text, tb_glossary, tb_attempt, tb_calls, tb_failures,
            tb_protected, tb_pt, tb_payload, tb_resp, tb_result, tb_pc>>

pdfVars == <<pdf_file_bytes, pdf_lines, pdf_page_count, pdf_has_cb, pdf_pages, pdf_pno,
             pdf_k, pdf_translations, pdf_calls, pdf_out, pdf_pc>>

pxVars == <<px_pptx_bytes, px_max_chars, px_max_items, px_prs, px_items, px_pointers,
            px_batches, px_b, px_all_translations, px_calls, px_failed, px_out, px_pc>>

xlVars == <<xl_workbook_bytes, xl_glossary, xl_batch_size, xl_keep_vba, xl_wb, xl_s_idx,
            xl_ranges, xl_items, xl_coords, xl_na_cor_targets, xl_batches, xl_b_idx,
            xl_mapping, xl_progress, xl_calls, xl_sent, xl_failed, xl_returned, xl_exc,
            xl_out,
            xl_pc>>

twVars == <<tw_file_bytes, tw_wb_in, tw_wb_out, tw_idx, tw_processed_any, tw_calls, tw_exc,
            tw_out, tw_pc>>

glVars == <<gl_raw, gl_text, gl_glossary, gl_out, gl_pc>>

ncVars == <<nc_text, nc_components, nc_out, nc_pc>>

vars == <<chunkVars, codecVars, tbVars, pdfVars, pxVars, xlVars, twVars, glVars, ncVars>>

\* The variables an operation of one component leaves alone.
exceptChunk == <<codecVars, tbVars, pdfVars, pxVars, xlVars, twVars, glVars, ncVars>>

exceptCodec == <<chunkVars, tbVars, pdfVars, pxVars, xlVars, twVars, glVars, ncVars>>

exceptTb == <<chunkVars, codecVars, pdfVars, pxVars, xlVars, twVars, glVars, ncVars>>

exceptPdf == <<chunkVars, codecVars, tbVars, pxVars, xlVars, twVars, glVars, ncVars>>

exceptPx == <<chunkVars, codecVars, tbVars, pdfVars, xlVars, twVars, glVars, ncVars>>

exceptXl == <<chunkVars, codecVars, tbVars, pdfVars, pxVars, twVars, glVars, ncVars>>

exceptTw == <<chunkVars, codecVars, tbVars, pdfVars, pxVars, xlVars, glVars, ncVars>>

exceptGl == <<chunkVars, codecVars, tbVars, pdfVars, pxVars, xlVars, twVars, ncVars>>

(***************************************************************************)
(* Generic helpers on sequences and texts.                                 *)
(***************************************************************************)
Range(s) == {s[i] : i \in 1..Len(s)}

Max(S) == CHOOSE x \in S : \A y \in S : y <= x

Min(S) == CHOOSE x \in S : \A y \in S : x <= y

\* All sequences over S of length 0..n.
SeqsUpTo(S, n) == UNION {[1..k -> S] : k \in 0..n}

\* The concatenation of a sequence of sequences, in order.
RECURSIVE Flatten(_)
Flatten(ss) == IF ss = <<>> THEN <<>> ELSE Head(ss) \o Flatten(Tail(ss))

(***************************************************************************)
(* Characters.  The classes are those Python's re uses for str patterns,   *)
(* restricted to the characters the model's texts are made of.  The        *)
(* multiplication sign and the euro sign are named by their code points.   *)
(***************************************************************************)
Upper == <<"A","B","C","D","E","F","G","H","I","J","K","L","M",
           "N","O","P","Q","R","S","T","U","V","W","X","Y","Z">>

Lower == <<"a","b","c","d","e","f","g","h","i","j","k","l","m",
           "n","o","p","q","r","s","t","u","v","w","x","y","z">>

DigitChars == <<"0","1","2","3","4","5","6","7","8","9">>

TimesSign == "U+00D7"

EuroSign == "U+20AC"

\* [A-Z] under re.IGNORECASE
AsciiLetter == Range(Upper) \cup Range(Lower)

\* \d
Digit == Range(DigitChars)

\* "\v", the text of a line break in python-pptx
VerticalTab == "U+000B"

\* \s
Space == {" ", "\n", "\t", VerticalTab}

\* \w
WordChar == AsciiLetter \cup Digit \cup {"_"}

\* The two cases of a letter (re.IGNORECASE); any other character alone.
CaseSet(c) ==
    IF c \in AsciiLetter
    THEN LET i == CHOOSE j \in 1..26 : Upper[j] = c \/ Lower[j] = c
         IN  {Upper[i], Lower[i]}
    ELSE {c}

(***************************************************************************)
(* Regular expressions, as far as PROTECT_PATTERNS needs them.  Offsets    *)
(* are Python's: offset p lies before the character t[p+1].                *)
(*   Cls(S)  a character of S          NotCls(S)  a character not in S     *)
(*   Cat(a)  the nodes of a in order   Alt(a)     one of the nodes of a    *)
(*   Rep(r, lo, hi)  r{lo,hi}, hi = Unbounded for no upper limit           *)
(*   WordB   \b                                                            *)
(***************************************************************************)
Unbounded == -1

Cls(S) == [k |-> "cls", s |-> S]

NotCls(S) == [k |-> "ncls", s |-> S]

Cat(a) == [k |-> "cat", a |-> a]

Alt(a) == [k |-> "alt", a |-> a]

Rep(r, lo, hi) == [k |-> "rep", r |-> r, lo |-> lo, hi |-> hi]

WordB == [k |-> "wb"]

\* r? , r+
Opt(r) == Rep(r, 0, 1)

Plus(r) == Rep(r, 1, Unbounded)

\* A literal word, case-insensitive.
Lit(w) == Cat([i \in 1..Len(w) |-> Cls(CaseSet(w[i]))])

\* \b holds at offset p when exactly one of the two neighbours is a word character.
IsWordBoundary(t, p) ==
    LET before == p > 0 /\ t[p] \in WordChar
        after == p < Len(t) /\ t[p + 1] \in WordChar
    IN  before # after

\* The offsets at which a match of r that starts at an offset of P can end.
RECURSIVE RegexEnds(_, _, _), CatEnds(_, _, _, _), RepEnds(_, _, _, _)
RegexEnds(r, t, P) ==
    CASE r.k = "cls" -> {p + 1 : p \in {q \in P : q < Len(t) /\ t[q + 1] \in r.s}}
      [] r.k = "ncls" -> {p + 1 : p \in {q \in P : q < Len(t) /\ t[q + 1] \notin r.s}}
      [] r.k = "wb" -> {p \in P : IsWordBoundary(t, p)}
      [] r.k = "cat" -> CatEnds(r.a, 1, t, P)
      [] r.k = "alt" -> UNION {RegexEnds(r.a[i], t, P) : i \in 1..Len(r.a)}
      [] r.k = "rep" -> RepEnds(r, 0, t, P)

CatEnds(a, i, t, P) ==
    IF i > Len(a) \/ P = {} THEN P ELSE CatEnds(a, i + 1, t, RegexEnds(a[i], t, P))

\* P: the offsets reached after n repetitions of r.r.
RepEnds(r, n, t, P) ==
    IF P = {} THEN {}
    ELSE LET here == IF n >= r.lo THEN P ELSE {}
         IN  IF r.hi # Unbounded /\ n >= r.hi
             THEN here
             ELSE here \cup RepEnds(r, n + 1, t, RegexEnds(r.r, t, P))

\* The match re finds at offset s, if any: every quantifier of PROTECT_PATTERNS
\* is greedy and no alternative is a prefix of a later one that can also end
\* the match, so the match found is the longest one that starts at s.
MaxOrNone(E) == IF E = {} THEN -1 ELSE Max(E)

MatchEnd(r, t, s) == MaxOrNone(RegexEnds(r, t, {s}))

\* re.finditer(pattern, text): the non-overlapping matches, scanning from pos;
\* finditer_at continues with the outcome e of the attempt at pos.
RECURSIVE finditer(_, _, _), finditer_at(_, _, _, _)
finditer(r, t, pos) ==
    IF pos > Len(t) THEN <<>> ELSE finditer_at(r, t, pos, MatchEnd(r, t, pos))

finditer_at(r, t, pos, e) ==
    IF e = -1 THEN finditer(r, t, pos + 1)
    ELSE <<[s |-> pos, e |-> e]>> \o finditer(r, t, IF e > pos THEN e ELSE pos + 1)

(***************************************************************************)
(* text_utils.py: PROTECT_PATTERNS (lines 13-22).                          *)
(***************************************************************************)
\* \d+(?:[.,]\d+)?
Number == Cat(<<Plus(Cls(Digit)), Opt(Cat(<<Cls({".", ","}), Plus(Cls(Digit))>>))>>)

\* \b[A-Z]\d{4,}(?:\s?\d{2,}){0,6}\b
SKU_CODE ==
    Cat(<<WordB, Cls(AsciiLetter), Rep(Cls(Digit), 4, Unbounded),
          Rep(Cat(<<Opt(Cls(Space)), Rep(Cls(Digit), 2, Unbounded)>>), 0, 6), WordB>>)

\* \b[A-Z0-9]{6,}\b
ALNUM_CODE == Cat(<<WordB, Rep(Cls(AsciiLetter \cup Digit), 6, Unbounded), WordB>>)

\* \b\d+(?:[.,]\d+)?\s?(?:mm|cm|m|in|inch|kg|g)\b
MEASURE ==
    Cat(<<WordB, Number, Opt(Cls(Space)),
          Alt(<<Lit(<<"m","m">>), Lit(<<"c","m">>), Lit(<<"m">>), Lit(<<"i","n">>),
                Lit(<<"i","n","c","h">>), Lit(<<"k","g">>), Lit(<<"g">>)>>),
          WordB>>)

\* \b\d+(?:[.,]\d+)?\s?[x×]\s?\d+(?:[.,]\d+)?(?:\s?(?:mm|cm|m|in|inch))?\b
DIMENSION ==
    Cat(<<WordB, Number, Opt(Cls(Space)), Cls({"x", "X", TimesSign}), Opt(Cls(Space)), Number,
          Opt(Cat(<<Opt(Cls(Space)),
                    Alt(<<Lit(<<"m","m">>), Lit(<<"c","m">>), Lit(<<"m">>), Lit(<<"i","n">>),
                          Lit(<<"i","n","c","h">>)>>)>>)),
          WordB>>)

\* \b\d+(?:[.,]\d+)?\s?%\b
PERCENT == Cat(<<WordB, Number, Opt(Cls(Space)), Cls({"%"}), WordB>>)

\* (?:R\$|\$|€)\s?\d+(?:[.,]\d+)*(?:[.,]\d+)?
MONEY ==
    Cat(<<Alt(<<Cat(<<Cls({"R", "r"}), Cls({"$"})>>), Cls({"$"}), Cls({EuroSign})>>),
          Opt(Cls(Space)), Plus(Cls(Digit)),
          Rep(Cat(<<Cls({".", ","}), Plus(Cls(Digit))>>), 0, Unbounded),
          Opt(Cat(<<Cls({".", ","}), Plus(Cls(Digit))>>))>>)

\* \b[A-Z0-9._%+-]+@[A-Z0-9.-]+\.[A-Z]{2,}\b
EMAIL ==
    Cat(<<WordB, Plus(Cls(AsciiLetter \cup Digit \cup {".", "_", "%", "+", "-"})), Cls({"@"}),
          Plus(Cls(AsciiLetter \cup Digit \cup {".", "-"})), Cls({"."}),
          Rep(Cls(AsciiLetter), 2, Unbounded), WordB>>)

\* \bhttps?://[^\s]+
URL ==
    Cat(<<WordB, Lit(<<"h","t","t","p">>), Opt(Lit(<<"s">>)), Cls({":"}), Cls({"/"}), Cls({"/"}),
          Plus(NotCls(Space))>>)

PROTECT_PATTERNS == <<SKU_CODE, ALNUM_CODE, MEASURE, DIMENSION, PERCENT, MONEY, EMAIL, URL>>

(***************************************************************************)
(* text_utils.py: protect_text (lines 53-92), restore_protected (95-102).  *)
(***************************************************************************)
\* str(n) for n >= 0
RECURSIVE Decimal(_)
Decimal(n) == IF n < 10 THEN <<DigitChars[n + 1]>>
              ELSE Decimal(n \div 10) \o <<DigitChars[(n % 10) + 1]>>

\* PLACEHOLDER_FMT.format(n=n), "<KEEP_{n}>"
PLACEHOLDER_FMT(n) == <<"<","K","E","E","P","_">> \o Decimal(n) \o <<">">>

\* text[s:e]
Slice(t, s, e) == SubSeq(t, s + 1, e)

\* Lines 66-71 for one pattern: its matches of 3 characters or more, as (s, e, val).
with_values(ms, text) ==
    [i \in 1..Len(ms) |-> [s |-> ms[i].s, e |-> ms[i].e, val |-> Slice(text, ms[i].s, ms[i].e)]]

pattern_matches(r, text) ==
    with_values(SelectSeq(finditer(r, text, 0), LAMBDA m : ~(m.e - m.s < 3)), text)

\* Lines 65-71: the matches of all patterns, in pattern order.
RECURSIVE collect_matches(_, _)
collect_matches(text, n) ==
    IF n = 0 THEN <<>>
    ELSE collect_matches(text, n - 1) \o pattern_matches(PROTECT_PATTERNS[n], text)

\* key=lambda x: (x[0], -(x[1] - x[0])): a sorts strictly before b.
match_key_less(a, b) == a.s < b.s \/ (a.s = b.s /\ (a.e - a.s) > (b.e - b.s))

\* Mutant: equal starts ordered shortest first.
match_key_less_shortest_first(a, b) == a.s < b.s \/ (a.s = b.s /\ (a.e - a.s) < (b.e - b.s))

\* list.sort is stable: m goes after every element that does not sort after it.
RECURSIVE sort_insert(_, _)
sort_insert(sorted, m) ==
    IF sorted = <<>> THEN <<m>>
    ELSE IF match_key_less(m, Head(sorted)) THEN <<m>> \o sorted
    ELSE <<Head(sorted)>> \o sort_insert(Tail(sorted), m)

\* matches.sort(key=...) (line 74)
RECURSIVE sort_matches(_, _)
sort_matches(ms, n) ==
    IF n = 0 THEN <<>> ELSE sort_insert(sort_matches(ms, n - 1), ms[n])

\* Mutant: a match is kept when it ends after the last kept one.
de_overlap_step_keeps_longer_reach(st, m) ==
    IF m.e > st.last_end
    THEN [kept |-> Append(st.kept, m), last_end |-> m.e]
    ELSE st

\* Lines 75-80: keep a match when it starts at or after the end of the last kept one.
de_overlap_step(st, m) ==
    IF m.s >= st.last_end
    THEN [kept |-> Append(st.kept, m), last_end |-> m.e]
    ELSE st

RECURSIVE de_overlap(_, _)
de_overlap(ms, n) ==
    IF n = 0 THEN [kept |-> <<>>, last_end |-> -1]
    ELSE de_overlap_step(de_overlap(ms, n - 1), ms[n])

sorted_matches(ms) == sort_matches(ms, Len(ms))

kept_matches(sorted) == de_overlap(sorted, Len(sorted)).kept

\* non_overlapping (line 75) of a text
non_overlapping(text) ==
    kept_matches(sorted_matches(collect_matches(text, Len(PROTECT_PATTERNS))))

\* Lines 86-90: the first i spans of reversed(non_overlapping) replaced.  The
\* dict placeholder_to_original is a sequence of (ph, original) in insertion order.
\* Lines 88-90 for one span m and its placeholder ph.
replace_span(st, m, ph) ==
    [text |-> Slice(st.text, 0, m.s) \o ph \o Slice(st.text, m.e, Len(st.text)),
     placeholder_to_original |->
         Append(st.placeholder_to_original, [ph |-> ph, original |-> m.val])]

RECURSIVE replace_spans(_, _, _)
replace_spans(text, spans, i) ==
    IF i = 0 THEN [text |-> text, placeholder_to_original |-> <<>>]
    ELSE replace_span(replace_spans(text, spans, i - 1),
                      spans[Len(spans) - i + 1], PLACEHOLDER_FMT(i - 1))

\* Lines 82-92, given non_overlapping.
protect_spans(text, spans) ==
    IF spans = <<>> THEN [text |-> text, placeholder_to_original |-> <<>>]
    ELSE replace_spans(text, spans, Len(spans))

\* protect_text(text) -> ProtectedText(text, placeholder_to_original)
protect_text(text) ==
    IF text = <<>> THEN [text |-> <<>>, placeholder_to_original |-> <<>>]
    ELSE protect_spans(text, non_overlapping(text))

\* s startswith old at offset p
StartsWithAt(s, old, p) ==
    /\ p + Len(old) <= Len(s)
    /\ \A i \in 1..Len(old) : s[p + i] = old[i]

\* str.replace(old, new) from offset p on, old not empty: every non-overlapping
\* occurrence, left to right.
RECURSIVE str_replace(_, _, _, _)
str_replace(s, old, new, p) ==
    IF p >= Len(s) THEN <<>>
    ELSE IF StartsWithAt(s, old, p) THEN new \o str_replace(s, old, new, p + Len(old))
    ELSE <<s[p + 1]>> \o str_replace(s, old, new, p + 1)

\* Lines 100-101: the first n entries of the dict substituted, in dict order.
RECURSIVE restore_loop(_, _, _)
restore_loop(text, map, n) ==
    IF n = 0 THEN text
    ELSE str_replace(restore_loop(text, map, n - 1), map[n].ph, map[n].original, 0)

\* restore_protected(text, placeholder_to_original)
restore_protected(text, map) ==
    IF map = <<>> THEN text ELSE restore_loop(text, map, Len(map))

(***************************************************************************)
(* Bounds of the batching model.                                           *)
(***************************************************************************)
ChunkMaxSeq == 3      \* longest item sequence handed to chunk_items
ChunkMaxText == 2     \* longest item text
ChunkMaxChars == 3    \* largest max_chars argument
ChunkMaxItems == 2    \* largest max_items argument

ItemIds == {"a", "b"}

\* Texts that only matter by their length.
ChunkTexts == SeqsUpTo({"x"}, ChunkMaxText)

\* class TranslationItem(NamedTuple): id, text
TranslationItem(id, text) == [id |-> id, text |-> text]

ChunkItemUniverse == {TranslationItem(i, t) : i \in ItemIds, t \in ChunkTexts}

(***************************************************************************)
(* chunk_items.  The loop state is (batches, cur, cur_chars).              *)
(***************************************************************************)
\* tlen = len(it.text or "")
chunk_tlen(it) == Len(it.text)

\* Mutant: the character bound tested on the batch alone, without the length
\* of the item about to be added.
chunk_must_flush_ignores_item_length(cur, cur_chars, tlen, max_chars, max_items) ==
    /\ cur # <<>>
    /\ (Len(cur) >= max_items \/ cur_chars > max_chars)

\* Mutant: the count bound tested with > instead of >=.
chunk_must_flush_count_off_by_one(cur, cur_chars, tlen, max_chars, max_items) ==
    /\ cur # <<>>
    /\ (Len(cur) > max_items \/ (cur_chars + tlen) > max_chars)

\* if cur and (len(cur) >= max_items or (cur_chars + tlen) > max_chars)
chunk_must_flush(cur, cur_chars, tlen, max_chars, max_items) ==
    /\ cur # <<>>
    /\ (Len(cur) >= max_items \/ (cur_chars + tlen) > max_chars)

\* Mutant: a flushed batch is dropped instead of appended to batches.
chunk_loop_body_drops_flushed(st, it, max_chars, max_items) ==
    LET tlen == chunk_tlen(it)
        flush == chunk_must_flush(st.cur, st.cur_chars, tlen, max_chars, max_items)
        cur0 == IF flush THEN <<>> ELSE st.cur
        chars0 == IF flush THEN 0 ELSE st.cur_chars
    IN  [batches |-> st.batches, cur |-> Append(cur0, it), cur_chars |-> chars0 + tlen]

\* One iteration of `for it in items` (lines 22-29).
chunk_loop_body(st, it, max_chars, max_items) ==
    LET tlen == chunk_tlen(it)
        flush == chunk_must_flush(st.cur, st.cur_chars, tlen, max_chars, max_items)
        batches0 == IF flush THEN Append(st.batches, st.cur) ELSE st.batches
        cur0 == IF flush THEN <<>> ELSE st.cur
        chars0 == IF flush THEN 0 ELSE st.cur_chars
    IN  [batches |-> batches0, cur |-> Append(cur0, it), cur_chars |-> chars0 + tlen]

\* The loop over the first n items, from the initial (batches, cur, cur_chars).
RECURSIVE chunk_loop(_, _, _, _)
chunk_loop(items, n, max_chars, max_items) ==
    IF n = 0
    THEN [batches |-> <<>>, cur |-> <<>>, cur_chars |-> 0]
    ELSE chunk_loop_body(chunk_loop(items, n - 1, max_chars, max_items),
                         items[n], max_chars, max_items)

\* chunk_items(items, max_chars, max_items): the loop, then `if cur: batches.append(cur)`.
chunk_items(items, max_chars, max_items) ==
    LET st == chunk_loop(items, Len(items), max_chars, max_items)
    IN  IF st.cur # <<>> THEN Append(st.batches, st.cur) ELSE st.batches

(***************************************************************************)
(* Specification of the batching engine: a caller picks the arguments     *)
(* and calls chunk_items.                                                  *)
(***************************************************************************)
ChunkIdle ==
    /\ ck_items = <<>>
    /\ ck_max_chars = 0
    /\ ck_max_items = 0
    /\ ck_batches = <<>>
    /\ ck_pc = "idle"

ChunkInit ==
    /\ ck_items \in SeqsUpTo(ChunkItemUniverse, ChunkMaxSeq)
    /\ ck_max_chars \in 0..ChunkMaxChars
    /\ ck_max_items \in 0..ChunkMaxItems
    /\ ck_batches = <<>>
    /\ ck_pc = "call"

ChunkCall ==
    /\ ck_pc = "call"
    /\ ck_batches' = chunk_items(ck_items, ck_max_chars, ck_max_items)
    /\ ck_pc' = "done"
    /\ UNCHANGED <<ck_items, ck_max_chars, ck_max_items>>
    /\ UNCHANGED exceptChunk

ChunkNext == ChunkCall

(***************************************************************************)
(* Specification of the codec: a text is protected, the translation        *)
(* rewrites the protected text, and the result is restored.                *)
(*                                                                         *)
(* The texts are built from a few words: placeholder look-alikes, a         *)
(* measurement, a URL, a code, a percentage, a plain word and a space.     *)
(***************************************************************************)
CodecMaxWords == 3    \* most words in a source text

CodecWords ==
    { <<"<","K","E","E","P","_","0",">">>,
      <<"<","K","E","E","P","_","1",">">>,
      <<"1","0"," ","c","m">>,
      <<"h","t","t","p",":","/","/","a","/">>,
      <<"A","B","1","2","3","4">>,
      <<"5","0","%">>,
      <<"a","l","c","a">>,
      <<" ">> }

CodecTexts == {Flatten(ws) : ws \in SeqsUpTo(CodecWords, CodecMaxWords)}

\* The protected text as pieces, left to right: the surrounding segments
\* (ph = FALSE) and the placeholders (ph = TRUE) with the substring each stands for.
RECURSIVE pieces_from(_, _, _, _)
pieces_from(text, spans, k, pos) ==
    IF k > Len(spans)
    THEN <<[ph |-> FALSE, txt |-> Slice(text, pos, Len(text)), original |-> <<>>]>>
    ELSE <<[ph |-> FALSE, txt |-> Slice(text, pos, spans[k].s), original |-> <<>>],
           [ph |-> TRUE, txt |-> PLACEHOLDER_FMT(Len(spans) - k), original |-> spans[k].val]>>
         \o pieces_from(text, spans, k + 1, spans[k].e)

ProtectedPieces(text) == pieces_from(text, non_overlapping(text), 1, 0)

RewriteModes == {"same", "mark", "strip", "reverse"}

Reverse(s) == [i \in 1..Len(s) |-> s[Len(s) - i + 1]]

\* A translation of the protected text: the surrounding segments are kept,
\* replaced by a translated word, or removed, or the pieces change order; the
\* placeholders are kept as they are.
Rewrite(pieces, mode) ==
    CASE mode = "same" -> pieces
      [] mode = "mark" ->
            [i \in 1..Len(pieces) |->
                IF pieces[i].ph \/ pieces[i].txt = <<>> THEN pieces[i]
                ELSE [pieces[i] EXCEPT !.txt = <<"T">>]]
      [] mode = "strip" -> SelectSeq(pieces, LAMBDA q : q.ph)
      [] mode = "reverse" -> Reverse(pieces)

\* The text of a sequence of pieces, and the text with every placeholder
\* replaced by the substring it stands for.
PiecesText(pieces) == Flatten([i \in 1..Len(pieces) |-> pieces[i].txt])

PiecesRestored(pieces) ==
    Flatten([i \in 1..Len(pieces) |->
                IF pieces[i].ph THEN pieces[i].original ELSE pieces[i].txt])

CodecIdle ==
    /\ cd_text = <<>>
    /\ cd_pt = [text |-> <<>>, placeholder_to_original |-> <<>>]
    /\ cd_mode = "same"
    /\ cd_sent = <<>>
    /\ cd_restored = <<>>
    /\ cd_pc = "idle"

CodecInit ==
    /\ cd_text \in CodecTexts
    /\ cd_pt = [text |-> <<>>, placeholder_to_original |-> <<>>]
    /\ cd_mode = "same"
    /\ cd_sent = <<>>
    /\ cd_restored = <<>>
    /\ cd_pc = "protect"

CodecProtect ==
    /\ cd_pc = "protect"
    /\ cd_pt' = protect_text(cd_text)
    /\ cd_pc' = "translate"
    /\ UNCHANGED <<cd_text, cd_mode, cd_sent, cd_restored>>
    /\ UNCHANGED exceptCodec

CodecTranslate ==
    /\ cd_pc = "translate"
    /\ \E mode \in RewriteModes :
          /\ cd_mode' = mode
          /\ cd_sent' = PiecesText(Rewrite(ProtectedPieces(cd_text), mode))
    /\ cd_pc' = "restore"
    /\ UNCHANGED <<cd_text, cd_pt, cd_restored>>
    /\ UNCHANGED exceptCodec

CodecRestore ==
    /\ cd_pc = "restore"
    /\ cd_restored' = restore_protected(cd_sent, cd_pt.placeholder_to_original)
    /\ cd_pc' = "done"
    /\ UNCHANGED <<cd_text, cd_pt, cd_mode, cd_sent>>
    /\ UNCHANGED exceptCodec

CodecNext == CodecProtect \/ CodecTranslate \/ CodecRestore

(***************************************************************************)
(* The translation client: translate_batch and translate_text, each        *)
(* wrapped in @retry(reraise=True, stop=stop_after_attempt(4),             *)
(* wait=wait_exponential(...), retry=retry_if_exception_type(Exception)).  *)
(* An invocation runs the method body once per attempt.                    *)
(***************************************************************************)
TbMaxItems == 2       \* longest batch handed to translate_batch
TbMaxRows == 2        \* most rows in a backend response

\* stop=stop_after_attempt(4)
STOP_AFTER_ATTEMPT == 4

TbTexts ==
    { <<"1","0"," ","c","m">>,
      <<"a","l","c","a"," ","5"," ","m">> }

TbItemUniverse == {TranslationItem(i, t) : i \in ItemIds, t \in TbTexts}

\* An id no item of the model carries.
UnrequestedId == "zz"

\* A Python dict as a function; d[k] = v.
EmptyDict == [k \in {} |-> <<>>]

DictSet(d, k, v) == [x \in (DOMAIN d) \cup {k} |-> IF x = k THEN v ELSE d[x]]

\* Mutant: the retry stops one attempt late.
tb_should_stop_one_late(attempt) == attempt > STOP_AFTER_ATTEMPT

\* stop_after_attempt(4): no further attempt once attempt number 4 has failed.
tb_should_stop(attempt) == attempt >= STOP_AFTER_ATTEMPT

\* pt = protect_text(it.text) (lines 111 and 153), tabulated over the texts of
\* the model.
TbProtectText == [t \in TbTexts |-> protect_text(t)]

\* Lines 150-155: protected and payload after the first n items.
\* Lines 153-155 for one item it, pt = protect_text(it.text).
tb_build_item(st, it, pt) ==
    [protected |-> DictSet(st.protected, it.id, pt),
     payload |-> Append(st.payload, [id |-> it.id, text |-> pt.text])]

RECURSIVE tb_build(_, _)
tb_build(items, n) ==
    IF n = 0 THEN [protected |-> EmptyDict, payload |-> <<>>]
    ELSE tb_build_item(tb_build(items, n - 1), items[n], TbProtectText[items[n].text])

\* The backend's translation of a protected text: the placeholders are kept.
backend_translation(ptext) == <<"T", ":">> \o ptext

\* A response row answers the payload entry src; its id is that entry's id, or
\* an id that was not requested.
TbRowChoices(payload) ==
    {[id |-> payload[k].id, translated |-> backend_translation(payload[k].text), src |-> k] :
        k \in 1..Len(payload)}
    \cup {[id |-> UnrequestedId, translated |-> backend_translation(payload[k].text), src |-> k] :
        k \in {j \in 1..Len(payload) : j = 1}}

\* The responses of the backend to a batch request: output that is no JSON of
\* the schema (ok = FALSE), or the rows of data["translations"].
TbBatchResponses(payload) ==
    {[ok |-> FALSE, rows |-> <<>>]}
    \cup {[ok |-> TRUE, rows |-> rows] : rows \in SeqsUpTo(TbRowChoices(payload), TbMaxRows)}

\* The responses to a translate_text request: data["translated"].
TbTextResponses(pt) ==
    {[ok |-> FALSE, translated |-> <<>>],
     [ok |-> TRUE, translated |-> backend_translation(pt.text)]}

\* Lines 180-183: out after the first n rows; ok = FALSE once protected[tid]
\* has raised KeyError.
\* Lines 182-183 for one row.
tb_parse_row(st, row, protected) ==
    IF ~st.ok \/ row.id \notin DOMAIN protected
    THEN [ok |-> FALSE, out |-> st.out]
    ELSE [ok |-> TRUE,
          out |-> DictSet(st.out, row.id,
                     restore_protected(row.translated,
                                       protected[row.id].placeholder_to_original))]

\* Mutant: a row whose id already has an entry is skipped.
RECURSIVE tb_parse_rows_first_row_wins(_, _, _)
tb_parse_rows_first_row_wins(rows, protected, n) ==
    IF n = 0 THEN [ok |-> TRUE, out |-> EmptyDict]
    ELSE LET st == tb_parse_rows_first_row_wins(rows, protected, n - 1)
         IN  IF rows[n].id \in DOMAIN st.out THEN st
             ELSE tb_parse_row(st, rows[n], protected)

RECURSIVE tb_parse_rows(_, _, _)
tb_parse_rows(rows, protected, n) ==
    IF n = 0 THEN [ok |-> TRUE, out |-> EmptyDict]
    ELSE tb_parse_row(tb_parse_rows(rows, protected, n - 1), rows[n], protected)

\* The outcome of the loop over all rows of a response.
tb_parsed(resp, protected) == tb_parse_rows(resp.rows, protected, Len(resp.rows))

TbIdle ==
    /\ tb_fn = "none"
    /\ tb_items = <<>>
    /\ tb_text = <<>>
    /\ tb_glossary = "dict"
    /\ tb_attempt = 0
    /\ tb_calls = 0
    /\ tb_failures = 0
    /\ tb_protected = EmptyDict
    /\ tb_pt = [text |-> <<>>, placeholder_to_original |-> <<>>]
    /\ tb_payload = <<>>
    /\ tb_resp = [ok |-> FALSE, rows |-> <<>>]
    /\ tb_result = EmptyDict
    /\ tb_pc = "idle"

\* The state at the entry of an invocation with the given arguments.
TbEntered(fn, items, text, glossary) ==
    /\ tb_fn' = fn
    /\ tb_items' = items
    /\ tb_text' = text
    /\ tb_glossary' = glossary
    /\ tb_attempt' = 1
    /\ tb_calls' = 0
    /\ tb_failures' = 0
    /\ tb_protected' = EmptyDict
    /\ tb_pt' = [text |-> <<>>, placeholder_to_original |-> <<>>]
    /\ tb_payload' = <<>>
    /\ tb_resp' = [ok |-> FALSE, rows |-> <<>>]
    /\ tb_result' = EmptyDict
    /\ tb_pc' = "body"

TbInit ==
    /\ \/ /\ tb_fn = "translate_batch"
          /\ tb_items \in SeqsUpTo(TbItemUniverse, TbMaxItems)
          /\ tb_text = <<>>
       \/ /\ tb_fn = "translate_text"
          /\ tb_items = <<>>
          /\ tb_text \in TbTexts
    /\ tb_glossary \in {"dict", "str"}
    /\ tb_attempt = 1
    /\ tb_calls = 0
    /\ tb_failures = 0
    /\ tb_protected = EmptyDict
    /\ tb_pt = [text |-> <<>>, placeholder_to_original |-> <<>>]
    /\ tb_payload = <<>>
    /\ tb_resp = [ok |-> FALSE, rows |-> <<>>]
    /\ tb_result = EmptyDict
    /\ tb_pc = "body"

\* tenacity after an attempt that raised: reraise when stop says so, else wait.
\* The locals of the attempt die with its frame.
TbAttemptFailed ==
    /\ tb_failures' = tb_failures + 1
    /\ tb_pc' = IF tb_should_stop(tb_attempt) THEN "raised" ELSE "backoff"
    /\ tb_protected' = EmptyDict
    /\ tb_pt' = [text |-> <<>>, placeholder_to_original |-> <<>>]
    /\ tb_payload' = <<>>
    /\ tb_resp' = [ok |-> FALSE, rows |-> <<>>]
    /\ UNCHANGED <<tb_fn, tb_items, tb_text, tb_glossary, tb_attempt, tb_result>>

\* The locals of the attempt as the body builds them (lines 111 and 150-155).
TbLocalsAre(b, pt) ==
    /\ tb_protected' = b.protected
    /\ tb_payload' = b.payload
    /\ tb_pt' = pt

TbLocalsBuilt ==
    IF tb_fn = "translate_batch"
    THEN TbLocalsAre(tb_build(tb_items, Len(tb_items)),
                     [text |-> <<>>, placeholder_to_original |-> <<>>])
    ELSE TbLocalsAre([protected |-> EmptyDict, payload |-> <<>>], TbProtectText[tb_text])

\* The body up to the request: protect the items, build the prompt and kwargs.
TbBuild ==
    /\ tb_pc = "body"
    /\ tb_glossary = "dict"
    /\ TbLocalsBuilt
    /\ tb_pc' = "request"
    /\ UNCHANGED <<tb_fn, tb_items, tb_text, tb_glossary, tb_attempt, tb_calls, tb_failures,
                   tb_resp, tb_result>>
    /\ UNCHANGED exceptTb

\* _system_prompt raises on glossary.items() when the glossary is a non-empty
\* str (line 87): the attempt fails before any backend call.
TbPromptRaises ==
    /\ tb_pc = "body"
    /\ tb_glossary = "str"
    /\ TbAttemptFailed
    /\ UNCHANGED tb_calls
    /\ UNCHANGED exceptTb

\* resp = self.client.responses.create(**kwargs) returns.
TbBackendReturns ==
    /\ tb_pc = "request"
    /\ tb_calls' = tb_calls + 1
    /\ tb_resp' \in (IF tb_fn = "translate_batch" THEN TbBatchResponses(tb_payload)
                     ELSE TbTextResponses(tb_pt))
    /\ tb_pc' = "parse"
    /\ UNCHANGED <<tb_fn, tb_items, tb_text, tb_glossary, tb_attempt, tb_failures,
                   tb_protected, tb_pt, tb_payload, tb_result>>
    /\ UNCHANGED exceptTb

\* self.client.responses.create raises (rate limit, timeout, network, 4xx, 5xx).
TbBackendRaises ==
    /\ tb_pc = "request"
    /\ tb_calls' = tb_calls + 1
    /\ TbAttemptFailed
    /\ UNCHANGED exceptTb

\* json.loads and the loop over data["translations"] (lines 178-184), or
\* data["translated"] (lines 133-134): the attempt returns.
TbParseReturns ==
    /\ tb_pc = "parse"
    /\ tb_resp.ok
    /\ IF tb_fn = "translate_batch"
       THEN /\ tb_parsed(tb_resp, tb_protected).ok
            /\ tb_result' = tb_parsed(tb_resp, tb_protected).out
       ELSE tb_result' = restore_protected(tb_resp.translated, tb_pt.placeholder_to_original)
    /\ tb_pc' = "returned"
    /\ UNCHANGED <<tb_fn, tb_items, tb_text, tb_glossary, tb_attempt, tb_calls, tb_failures,
                   tb_protected, tb_pt, tb_payload, tb_resp>>
    /\ UNCHANGED exceptTb

\* json.loads raises, a required key is missing, or protected[tid] raises
\* KeyError for a row whose id was not requested: the attempt fails.
TbParseRaises ==
    /\ tb_pc = "parse"
    /\ \/ ~tb_resp.ok
       \/ /\ tb_fn = "translate_batch"
          /\ tb_resp.ok
          /\ ~tb_parsed(tb_resp, tb_protected).ok
    /\ TbAttemptFailed
    /\ UNCHANGED tb_calls
    /\ UNCHANGED exceptTb

\* tenacity sleeps (wait_exponential) and runs the body again.
TbBackoff ==
    /\ tb_pc = "backoff"
    /\ tb_attempt' = tb_attempt + 1
    /\ tb_pc' = "body"
    /\ UNCHANGED <<tb_fn, tb_items, tb_text, tb_glossary, tb_calls, tb_failures,
                   tb_protected, tb_pt, tb_payload, tb_resp, tb_result>>
    /\ UNCHANGED exceptTb

\* The caller invokes the translator again.
TbCallAgain ==
    /\ tb_pc \in {"returned", "raised"}
    /\ \/ \E items \in SeqsUpTo(TbItemUniverse, TbMaxItems) :
             TbEntered("translate_batch", items, <<>>, tb_glossary)
       \/ \E text \in TbTexts :
             TbEntered("translate_text", <<>>, text, tb_glossary)
    /\ UNCHANGED exceptTb

\* The steps of one invocation.
TbInvocation ==
    \/ TbBuild
    \/ TbPromptRaises
    \/ TbBackendReturns
    \/ TbBackendRaises
    \/ TbParseReturns
    \/ TbParseRaises
    \/ TbBackoff

TbNext ==
    \/ TbBuild
    \/ TbPromptRaises
    \/ TbBackendReturns
    \/ TbBackendRaises
    \/ TbParseReturns
    \/ TbParseRaises
    \/ TbBackoff
    \/ TbCallAgain

(***************************************************************************)
(* The PDF adapter: translate_pdf_bytes (pdf_translate.py:234-303).        *)
(* Font sizes are counted in quarter points, so that 4.0 is 16 and the     *)
(* shrink step 0.75 is 3.                                                  *)
(***************************************************************************)
PdfMaxPages == 2      \* most pages of a document
PdfMaxLines == 3      \* most text lines of a document, all pages together

\* fs = max(4.0, ...), in quarter points
MIN_FONT_SIZE == 16
\* fs -= 0.75, in quarter points
SHRINK_STEP == 3
\* for _ in range(18)
FIT_ATTEMPTS == 18

\* The lines page.get_text("dict") yields: the stripped text of a line is
\* empty ("blank"), matches BULLET_ONLY_RE ("bullet"), or is text to translate.
\* fontsize is the largest span size; the text fits its rect at sizes <= fit.
\* A line of 10 pt that fits as it is or at no size, and a heading of 24 pt
\* whose translation fits at 4 pt only.
PdfLineKinds ==
    { [kind |-> "text",   fontsize |-> 40, fit |-> 40],
      [kind |-> "text",   fontsize |-> 40, fit |-> 0],
      [kind |-> "text",   fontsize |-> 96, fit |-> 16],
      [kind |-> "bullet", fontsize |-> 40, fit |-> 40],
      [kind |-> "blank",  fontsize |-> 40, fit |-> 40] }

PdfLine(pno, k) == [page_index |-> pno, kind |-> k.kind, fontsize |-> k.fontsize, fit |-> k.fit]

\* The lines of a document in reading order, each with the page it is on.
PdfLinesOf(page_count) ==
    { ls \in SeqsUpTo({PdfLine(p, k) : p \in 0..(page_count - 1), k \in PdfLineKinds},
                      PdfMaxLines) :
        \A i \in 1..(Len(ls) - 1) : ls[i].page_index <= ls[i + 1].page_index }

\* _extract_pdf_line_items keeps a line unless its text is empty or bullet-only
\* (lines 157-163): the indices of the kept lines of page pno, in order.
RECURSIVE extract_from(_, _, _)
extract_from(lines, pno, i) ==
    IF i > Len(lines) THEN <<>>
    ELSE IF lines[i].page_index = pno /\ lines[i].kind = "text"
         THEN <<i>> \o extract_from(lines, pno, i + 1)
         ELSE extract_from(lines, pno, i + 1)

\* items_by_page[pno] (lines 251-256).
items_by_page(lines, pno) == extract_from(lines, pno, 1)

\* A page of the open document: the redact annotations added so far and those
\* still pending, the number of apply_redactions calls, the lines whose
\* original text is still on the page, the text boxes written on it, and every
\* insert_textbox call made on it.
PdfPageState(lines, pno) ==
    [added    |-> <<>>,
     pending  |-> {},
     applied  |-> 0,
     original |-> {i \in 1..Len(lines) : lines[i].page_index = pno},
     inserted |-> <<>>,
     tries    |-> <<>>]

\* fitz.open(stream=file_bytes): the pages of the document.
PdfOpenPages(lines, page_count) == [p \in 1..page_count |-> PdfPageState(lines, p - 1)]

\* The bytes of a document: what it holds, and the program that wrote them.
PdfBytes(writer, pages) == [writer |-> writer, pages |-> pages]

\* doc.tobytes(): MuPDF writes the document anew.
tobytes(pages) == PdfBytes("mupdf", pages)

\* _safe_progress (lines 52-66): cb(label, frac) is tried first and only a
\* TypeError is caught; cb(label) is tried next and every Exception is caught.
\* first and second are what the two calls do; "raised" when the exception of
\* the first call leaves _safe_progress.
_safe_progress(has_cb, first, second) ==
    IF ~has_cb THEN "returned"
    ELSE IF first = "ok" THEN "returned"
    ELSE IF first # "TypeError" THEN "raised"
    ELSE IF second = "ok" THEN "returned"
    ELSE "returned"

CallbackFirst == {"ok", "TypeError", "Exception"}

CallbackSecond == {"ok", "Exception"}

\* page.add_redact_annot for every item of the page (lines 281-283).
add_redact_annots(page, items) ==
    [page EXCEPT !.added = @ \o items, !.pending = @ \cup Range(items)]

\* page.apply_redactions: what lies in the rect of a pending annotation is
\* removed from the page, text boxes written there included.
RECURSIVE KeepInserted(_, _)
KeepInserted(inserted, gone) ==
    IF inserted = <<>> THEN <<>>
    ELSE IF Head(inserted).item \in gone THEN KeepInserted(Tail(inserted), gone)
         ELSE <<Head(inserted)>> \o KeepInserted(Tail(inserted), gone)

apply_redactions(page) ==
    [page EXCEPT !.applied = @ + 1,
                 !.original = @ \ page.pending,
                 !.inserted = KeepInserted(@, page.pending),
                 !.pending = {}]

\* page.insert_textbox(rect, text, fontsize=fs): rc >= 0 and the text is
\* written when it fits, rc < 0 and nothing is written when it does not.
insert_textbox(page, line, item, text, fs) ==
    [page EXCEPT !.tries = Append(@, [item |-> item, fs |-> fs, fits |-> fs <= line.fit]),
                 !.inserted = IF fs <= line.fit
                              THEN Append(@, [item |-> item, text |-> text, fs |-> fs])
                              ELSE @]

\* The final attempt of _insert_text_fit (line 138).
insert_final(page, line, item, text, fs) ==
    insert_textbox(page, line, item, text, Max({MIN_FONT_SIZE, fs}))

\* The loop of _insert_text_fit (lines 122-135) from its n-th pass on.
RECURSIVE insert_loop(_, _, _, _, _, _)
insert_loop(page, line, item, text, fs, n) ==
    IF n > FIT_ATTEMPTS THEN insert_final(page, line, item, text, fs)
    ELSE IF fs <= line.fit THEN insert_textbox(page, line, item, text, fs)
    ELSE IF fs - SHRINK_STEP < MIN_FONT_SIZE
         THEN insert_final(insert_textbox(page, line, item, text, fs), line, item, text,
                           fs - SHRINK_STEP)
         ELSE insert_loop(insert_textbox(page, line, item, text, fs), line, item, text,
                          fs - SHRINK_STEP, n + 1)

\* _insert_text_fit (lines 109-138).
_insert_text_fit(page, line, item, text) ==
    insert_loop(page, line, item, text, Max({MIN_FONT_SIZE, line.fontsize}), 1)

\* translator.translate_text(text=t, ...) for the text of line i.
PdfTranslation(i) == [translation_of |-> i]

\* _translate_texts, the per-text fallback (lines 219-231): the translations of
\* the first n texts.
translate_texts(items, n) == [k \in 1..n |-> PdfTranslation(items[k])]

PdfIdle ==
    /\ pdf_file_bytes = PdfBytes("none", <<>>)
    /\ pdf_lines = <<>>
    /\ pdf_page_count = 0
    /\ pdf_has_cb = FALSE
    /\ pdf_pages = <<>>
    /\ pdf_pno = 0
    /\ pdf_k = 0
    /\ pdf_translations = <<>>
    /\ pdf_calls = 0
    /\ pdf_out = PdfBytes("none", <<>>)
    /\ pdf_pc = "idle"

\* The call translate_pdf_bytes(file_bytes, translator, ..., progress_callback).
PdfInit ==
    /\ pdf_page_count \in 1..PdfMaxPages
    /\ pdf_lines \in PdfLinesOf(pdf_page_count)
    /\ \E writer \in {"mupdf", "other"} :
          pdf_file_bytes = PdfBytes(writer, PdfOpenPages(pdf_lines, pdf_page_count))
    /\ pdf_has_cb \in BOOLEAN
    /\ pdf_pages = <<>>
    /\ pdf_pno = 0
    /\ pdf_k = 0
    /\ pdf_translations = <<>>
    /\ pdf_calls = 0
    /\ pdf_out = PdfBytes("none", <<>>)
    /\ pdf_pc = "call"

pdfInputs == <<pdf_file_bytes, pdf_lines, pdf_page_count, pdf_has_cb>>

\* page_items of the page the loop is at.
page_items == items_by_page(pdf_lines, pdf_pno)

\* Lines 248-256: open the document, extract the items, group them by page.
PdfOpen ==
    /\ pdf_pc = "call"
    /\ pdf_pages' = pdf_file_bytes.pages
    /\ pdf_pno' = 0
    /\ pdf_pc' = "page"
    /\ UNCHANGED <<pdfInputs, pdf_k, pdf_translations, pdf_calls, pdf_out>>
    /\ UNCHANGED exceptPdf

\* Lines 258-264: the head of the page loop, the progress call, and the
\* continue of a page without items.
PdfPageBegin ==
    /\ pdf_pc = "page"
    /\ pdf_pno < pdf_page_count
    /\ \E first \in CallbackFirst, second \in CallbackSecond :
          IF _safe_progress(pdf_has_cb, first, second) = "raised"
          THEN pdf_pc' = "raised" /\ pdf_pno' = pdf_pno
          ELSE IF page_items = <<>>
               THEN pdf_pc' = "page" /\ pdf_pno' = pdf_pno + 1
               ELSE pdf_pc' = "translate" /\ pdf_pno' = pdf_pno
    /\ UNCHANGED <<pdfInputs, pdf_pages, pdf_k, pdf_translations, pdf_calls, pdf_out>>
    /\ UNCHANGED exceptPdf

\* Lines 266-278: render the page and translate its texts; every
\* translate_text call returns.
PdfTranslateReturns ==
    /\ pdf_pc = "translate"
    /\ pdf_translations' = translate_texts(page_items, Len(page_items))
    /\ pdf_calls' = pdf_calls + Len(page_items)
    /\ pdf_pc' = "redact"
    /\ UNCHANGED <<pdfInputs, pdf_pages, pdf_pno, pdf_k, pdf_out>>
    /\ UNCHANGED exceptPdf

\* Lines 270-278: the n-th translate_text call of the page raises after its
\* retries; nothing catches it.
PdfTranslateRaises ==
    /\ pdf_pc = "translate"
    /\ \E n \in 1..Len(page_items) : pdf_calls' = pdf_calls + n
    /\ pdf_pc' = "raised"
    /\ UNCHANGED <<pdfInputs, pdf_pages, pdf_pno, pdf_k, pdf_translations, pdf_out>>
    /\ UNCHANGED exceptPdf

\* Lines 281-283: add the redaction annotation of every item of the page.
PdfAddRedactions ==
    /\ pdf_pc = "redact"
    /\ pdf_pages' = [pdf_pages EXCEPT ![pdf_pno + 1] = add_redact_annots(@, page_items)]
    /\ pdf_pc' = "apply"
    /\ UNCHANGED <<pdfInputs, pdf_pno, pdf_k, pdf_translations, pdf_calls, pdf_out>>
    /\ UNCHANGED exceptPdf

\* Mutant: the redactions are not applied before the insertions.
PdfApplyRedactions_skipped ==
    /\ pdf_pc = "apply"
    /\ pdf_k' = 1
    /\ pdf_pc' = "insert"
    /\ UNCHANGED <<pdfInputs, pdf_pages, pdf_pno, pdf_translations, pdf_calls, pdf_out>>
    /\ UNCHANGED exceptPdf

\* Line 286: page.apply_redactions, once for the page.
PdfApplyRedactions ==
    /\ pdf_pc = "apply"
    /\ pdf_pages' = [pdf_pages EXCEPT ![pdf_pno + 1] = apply_redactions(@)]
    /\ pdf_k' = 1
    /\ pdf_pc' = "insert"
    /\ UNCHANGED <<pdfInputs, pdf_pno, pdf_translations, pdf_calls, pdf_out>>
    /\ UNCHANGED exceptPdf

\* Lines 289-298, one pass of the loop over zip(page_items, translations).
PdfInsert ==
    /\ pdf_pc = "insert"
    /\ pdf_k <= Min({Len(page_items), Len(pdf_translations)})
    /\ pdf_pages' = [pdf_pages EXCEPT ![pdf_pno + 1] =
                        _insert_text_fit(@, pdf_lines[page_items[pdf_k]],
                                         page_items[pdf_k], pdf_translations[pdf_k])]
    /\ pdf_k' = pdf_k + 1
    /\ UNCHANGED <<pdfInputs, pdf_pno, pdf_translations, pdf_calls, pdf_out, pdf_pc>>
    /\ UNCHANGED exceptPdf

\* The zip is exhausted: the page loop goes to the next page.
PdfPageEnd ==
    /\ pdf_pc = "insert"
    /\ pdf_k > Min({Len(page_items), Len(pdf_translations)})
    /\ pdf_pno' = pdf_pno + 1
    /\ pdf_pc' = "page"
    /\ UNCHANGED <<pdfInputs, pdf_pages, pdf_k, pdf_translations, pdf_calls, pdf_out>>
    /\ UNCHANGED exceptPdf

\* Lines 300-303: the last progress call, doc.tobytes(), return.
PdfFinish ==
    /\ pdf_pc = "page"
    /\ pdf_pno = pdf_page_count
    /\ \E first \in CallbackFirst, second \in CallbackSecond :
          IF _safe_progress(pdf_has_cb, first, second) = "raised"
          THEN pdf_pc' = "raised" /\ pdf_out' = pdf_out
          ELSE pdf_pc' = "returned" /\ pdf_out' = tobytes(pdf_pages)
    /\ UNCHANGED <<pdfInputs, pdf_pages, pdf_pno, pdf_k, pdf_translations, pdf_calls>>
    /\ UNCHANGED exceptPdf

PdfNext ==
    \/ PdfOpen
    \/ PdfPageBegin
    \/ PdfTranslateReturns
    \/ PdfTranslateRaises
    \/ PdfAddRedactions
    \/ PdfApplyRedactions
    \/ PdfInsert
    \/ PdfPageEnd
    \/ PdfFinish

(***************************************************************************)
(* The PPTX adapter: translate_pptx_bytes (pptx_translate.py:109-140).     *)
(* A presentation is a sequence of slides, a slide a sequence of shapes, a *)
(* shape a picture, a text frame or a table of one cell; a text frame or   *)
(* cell holds paragraphs, and a paragraph is the sequence of its runs'     *)
(* texts.                                                                  *)
(***************************************************************************)
PxMaxSlides == 2        \* most slides of a presentation
PxMaxShapes == 2        \* most shapes of a slide
PxMaxParas == 2         \* most paragraphs of a shape's text frame
PxMaxCellParas == 1     \* most paragraphs of a table cell
PxMaxParagraphs == 3    \* most paragraphs of a presentation
PxMaxItemsArg == 2      \* largest max_items argument
PxTightChars == 8       \* the small max_chars argument

\* max_chars: int = 18000
DEFAULT_MAX_CHARS == 18000

\* str.strip()
RECURSIVE lstrip(_)
lstrip(t) == IF t # <<>> /\ Head(t) \in Space THEN lstrip(Tail(t)) ELSE t

RECURSIVE rstrip(_)
rstrip(t) == IF t # <<>> /\ t[Len(t)] \in Space THEN rstrip(SubSeq(t, 1, Len(t) - 1)) ELSE t

strip(t) == rstrip(lstrip(t))

\* A paragraph is the sequence of its content children: runs (a:r), line
\* breaks (a:br) and fields (a:fld), each with its text.
PxRun(text) == [tag |-> "r", text |-> text]

PxBreak == [tag |-> "br", text |-> <<VerticalTab>>]

PxField(text) == [tag |-> "fld", text |-> text]

\* The paragraphs of the model: no run, one run, two runs with blanks around
\* the text, one run of blanks.
PxParagraphKinds ==
    { <<>>,
      <<PxRun(<<"a","l","c","a">>)>>,
      <<PxRun(<<" ","a","l">>), PxRun(<<"c","a"," ","5"," ","m"," ">>)>>,
      <<PxRun(<<" "," ">>)>> }

\* Paragraphs with other content children: two runs with a line break between
\* them, and a field alone (a slide number).
PxRichParagraphKinds ==
    PxParagraphKinds
    \cup { <<PxRun(<<"a","l">>), PxBreak, PxRun(<<"c","a">>)>>,
           <<PxField(<<"7">>)>> }

PxShapeKinds ==
    {[kind |-> "picture", paragraphs |-> <<>>]}
    \cup {[kind |-> "text", paragraphs |-> ps] :
             ps \in SeqsUpTo(PxParagraphKinds, PxMaxParas) \ {<<>>}}
    \cup {[kind |-> "table", paragraphs |-> ps] :
             ps \in SeqsUpTo(PxParagraphKinds, PxMaxCellParas) \ {<<>>}}

RECURSIVE PxSlideParagraphs(_)
PxSlideParagraphs(slide) ==
    IF slide = <<>> THEN 0
    ELSE Len(Head(slide).paragraphs) + PxSlideParagraphs(Tail(slide))

RECURSIVE PxDeckParagraphs(_)
PxDeckParagraphs(deck) ==
    IF deck = <<>> THEN 0
    ELSE PxSlideParagraphs(Head(deck)) + PxDeckParagraphs(Tail(deck))

\* The slides of at most n paragraphs.
PxSlidesUpTo ==
    [n \in 0..PxMaxParagraphs |->
        {s \in SeqsUpTo(PxShapeKinds, PxMaxShapes) : PxSlideParagraphs(s) <= n}]

\* The presentations of at most n slides that extend deck to at most
\* PxMaxParagraphs paragraphs.
RECURSIVE PxDecksFrom(_, _)
PxDecksFrom(deck, n) ==
    {deck} \cup
    (IF n = 0 THEN {}
     ELSE UNION {PxDecksFrom(Append(deck, s), n - 1) :
                    s \in PxSlidesUpTo[PxMaxParagraphs - PxDeckParagraphs(deck)]})

PxDecks == PxDecksFrom(<<>>, PxMaxSlides)

\* The presentations of one slide with one text frame or table cell of
\* paragraphs of every kind, alone or after a picture.
PxRichShapes ==
    {[kind |-> "text", paragraphs |-> ps] :
        ps \in SeqsUpTo(PxRichParagraphKinds, PxMaxParas) \ {<<>>}}
    \cup {[kind |-> "table", paragraphs |-> ps] :
             ps \in SeqsUpTo(PxRichParagraphKinds, PxMaxCellParas) \ {<<>>}}

PxRichDecks ==
    {<< <<sh>> >> : sh \in PxRichShapes}
    \cup {<< <<[kind |-> "picture", paragraphs |-> <<>>], sh>> >> : sh \in PxRichShapes}

\* The bytes of a presentation: what it holds, and the program that wrote them.
PptxBytes(writer, deck) == [writer |-> writer, deck |-> deck]

\* paragraph.text: the text of every content child, a line break as "\v"
para_text(paragraph) == Flatten([i \in 1..Len(paragraph) |-> paragraph[i].text])

\* paragraph.runs: the a:r children, by their position in the paragraph.
para_runs(paragraph) == {i \in 1..Len(paragraph) : paragraph[i].tag = "r"}

\* tid (lines 41 and 63) and the PptxPointer of the paragraph (lines 43-50 and
\* 65-70); the table of the model has the one cell (0, 0).
PptxPointer(kind, s_i, sh_i, p_i) ==
    [kind |-> kind, slide_idx |-> s_i, shape_idx |-> sh_i, para_idx |-> p_i]

pointer_kind(shape) == IF shape.kind = "table" THEN "cell_paragraph" ELSE "shape_paragraph"

\* Lines 37-50 and 59-70: the paragraphs of a text frame from index p_i on.
RECURSIVE frame_items(_, _, _, _)
frame_items(shape, s_i, sh_i, p_i) ==
    IF p_i >= Len(shape.paragraphs) THEN <<>>
    ELSE IF strip(para_text(shape.paragraphs[p_i + 1])) = <<>>
         THEN frame_items(shape, s_i, sh_i, p_i + 1)
         ELSE <<TranslationItem(PptxPointer(pointer_kind(shape), s_i, sh_i, p_i),
                                strip(para_text(shape.paragraphs[p_i + 1])))>>
              \o frame_items(shape, s_i, sh_i, p_i + 1)

\* Lines 28-70: the shapes of a slide from index sh_i on.
RECURSIVE slide_items(_, _, _)
slide_items(slide, s_i, sh_i) ==
    IF sh_i >= Len(slide) THEN <<>>
    ELSE IF slide[sh_i + 1].kind = "picture"
         THEN slide_items(slide, s_i, sh_i + 1)
         ELSE frame_items(slide[sh_i + 1], s_i, sh_i, 0) \o slide_items(slide, s_i, sh_i + 1)

\* Lines 27-72: the slides from index s_i on.
RECURSIVE deck_items(_, _)
deck_items(prs, s_i) ==
    IF s_i >= Len(prs) THEN <<>>
    ELSE slide_items(prs[s_i + 1], s_i, 0) \o deck_items(prs, s_i + 1)

\* extract_pptx_items(prs) -> (items, pointers)
extract_pptx_items(prs) ==
    [items |-> deck_items(prs, 0),
     pointers |-> [tid \in {it.id : it \in Range(deck_items(prs, 0))} |-> tid]]

\* Mutant: the runs after the first keep their text.
_rewrite_paragraph_keeps_other_runs(paragraph, new_text) ==
    IF para_runs(paragraph) = {} THEN Append(paragraph, PxRun(new_text))
    ELSE [i \in 1..Len(paragraph) |->
             IF i = Min(para_runs(paragraph)) THEN PxRun(new_text) ELSE paragraph[i]]

\* _rewrite_paragraph_keep_first_run (lines 75-89); add_run appends the new
\* run after the content children of the paragraph.
_rewrite_paragraph_keep_first_run(paragraph, new_text) ==
    IF para_runs(paragraph) = {} THEN Append(paragraph, PxRun(new_text))
    ELSE [i \in 1..Len(paragraph) |->
             IF i \notin para_runs(paragraph) THEN paragraph[i]
             ELSE IF i = Min(para_runs(paragraph)) THEN PxRun(new_text)
             ELSE PxRun(<<>>)]

\* apply_pptx_translations (lines 92-106).  The pointers of distinct ids point
\* to distinct paragraphs, so the order of translations.items() does not
\* matter: a paragraph is rewritten when its id has a translation and a pointer.
apply_to_paragraph(paragraph, tid, translations, pointers) ==
    IF tid \in DOMAIN translations /\ tid \in DOMAIN pointers
    THEN _rewrite_paragraph_keep_first_run(paragraph, translations[tid])
    ELSE paragraph

apply_to_shape(shape, s_i, sh_i, translations, pointers) ==
    [shape EXCEPT !.paragraphs =
        [p \in 1..Len(shape.paragraphs) |->
            apply_to_paragraph(shape.paragraphs[p],
                               PptxPointer(pointer_kind(shape), s_i, sh_i, p - 1),
                               translations, pointers)]]

apply_pptx_translations(prs, translations, pointers) ==
    [s \in 1..Len(prs) |->
        [sh \in 1..Len(prs[s]) |->
            apply_to_shape(prs[s][sh], s - 1, sh - 1, translations, pointers)]]

\* all_translations.update(batch_map)
dict_update(d, m) == [k \in (DOMAIN d) \cup (DOMAIN m) |-> IF k \in DOMAIN m THEN m[k] ELSE d[k]]

\* What translate_batch returns for a batch when the response has rows for the
\* ids of answered: a dict of those ids (a row of another id fails the attempt).
batch_map(batch, answered) ==
    [tid \in answered |->
        backend_translation((CHOOSE it \in Range(batch) : it.id = tid).text)]

BatchIds(batch) == {batch[i].id : i \in 1..Len(batch)}

PxIdle ==
    /\ px_pptx_bytes = PptxBytes("none", <<>>)
    /\ px_max_chars = 0
    /\ px_max_items = 0
    /\ px_prs = <<>>
    /\ px_items = <<>>
    /\ px_pointers = EmptyDict
    /\ px_batches = <<>>
    /\ px_b = 0
    /\ px_all_translations = EmptyDict
    /\ px_calls = 0
    /\ px_failed = 0
    /\ px_out = PptxBytes("none", <<>>)
    /\ px_pc = "idle"

\* The call translate_pptx_bytes(pptx_bytes, translator, ..., max_chars, max_items).
PxInit ==
    /\ \E deck \in PxDecks : px_pptx_bytes = PptxBytes("other", deck)
    /\ px_max_chars \in {PxTightChars, DEFAULT_MAX_CHARS}
    /\ px_max_items \in 1..PxMaxItemsArg
    /\ px_prs = <<>>
    /\ px_items = <<>>
    /\ px_pointers = EmptyDict
    /\ px_batches = <<>>
    /\ px_b = 0
    /\ px_all_translations = EmptyDict
    /\ px_calls = 0
    /\ px_failed = 0
    /\ px_out = PptxBytes("none", <<>>)
    /\ px_pc = "call"

pxInputs == <<px_pptx_bytes, px_max_chars, px_max_items>>

\* Lines 119-126: open, extract, return the input when there is no item, else
\* chunk the items.
PxExtracted(ex) ==
    /\ px_items' = ex.items
    /\ px_pointers' = ex.pointers
    /\ IF ex.items = <<>>
       THEN /\ px_out' = px_pptx_bytes
            /\ px_batches' = <<>>
            /\ px_b' = 0
            /\ px_pc' = "returned"
       ELSE /\ px_out' = px_out
            /\ px_batches' = chunk_items(ex.items, px_max_chars, px_max_items)
            /\ px_b' = 1
            /\ px_pc' = "translate"

PxExtract ==
    /\ px_pc = "call"
    /\ px_prs' = px_pptx_bytes.deck
    /\ PxExtracted(extract_pptx_items(px_pptx_bytes.deck))
    /\ UNCHANGED <<pxInputs, px_all_translations, px_calls, px_failed>>
    /\ UNCHANGED exceptPx

\* Lines 126-134, one pass of the loop: translate_batch returns a mapping.
PxBatchReturns ==
    /\ px_pc = "translate"
    /\ px_b <= Len(px_batches)
    /\ \E answered \in SUBSET BatchIds(px_batches[px_b]) :
          px_all_translations' =
              dict_update(px_all_translations, batch_map(px_batches[px_b], answered))
    /\ px_calls' = px_calls + 1
    /\ px_b' = px_b + 1
    /\ UNCHANGED <<pxInputs, px_prs, px_items, px_pointers, px_batches, px_failed, px_out,
                   px_pc>>
    /\ UNCHANGED exceptPx

\* Mutant: a batch that failed is skipped and the loop goes on.
PxBatchRaises_swallowed ==
    /\ px_pc = "translate"
    /\ px_b <= Len(px_batches)
    /\ px_calls' = px_calls + 1
    /\ px_failed' = px_failed + 1
    /\ px_b' = px_b + 1
    /\ UNCHANGED <<pxInputs, px_prs, px_items, px_pointers, px_batches,
                   px_all_translations, px_out, px_pc>>
    /\ UNCHANGED exceptPx

\* Lines 127-133: translate_batch raises after its retries; nothing catches it.
PxBatchRaises ==
    /\ px_pc = "translate"
    /\ px_b <= Len(px_batches)
    /\ px_calls' = px_calls + 1
    /\ px_failed' = px_failed + 1
    /\ px_pc' = "raised"
    /\ UNCHANGED <<pxInputs, px_prs, px_items, px_pointers, px_batches, px_b,
                   px_all_translations, px_out>>
    /\ UNCHANGED exceptPx

\* Line 136: apply_pptx_translations, after the loop.
PxApply ==
    /\ px_pc = "translate"
    /\ px_b > Len(px_batches)
    /\ px_prs' = apply_pptx_translations(px_prs, px_all_translations, px_pointers)
    /\ px_pc' = "save"
    /\ UNCHANGED <<pxInputs, px_items, px_pointers, px_batches, px_b, px_all_translations,
                   px_calls, px_failed, px_out>>
    /\ UNCHANGED exceptPx

\* Lines 138-140: prs.save(out); return out.getvalue().
PxSave ==
    /\ px_pc = "save"
    /\ px_out' = PptxBytes("python-pptx", px_prs)
    /\ px_pc' = "returned"
    /\ UNCHANGED <<pxInputs, px_prs, px_items, px_pointers, px_batches, px_b,
                   px_all_translations, px_calls, px_failed>>
    /\ UNCHANGED exceptPx

PxNext ==
    \/ PxExtract
    \/ PxBatchReturns
    \/ PxBatchRaises
    \/ PxApply
    \/ PxSave

(***************************************************************************)
(* apply_glossary_hard (text_utils.py:33-50).  A glossary is the sequence  *)
(* of its (k, v) entries in dict order.                                    *)
(***************************************************************************)
\* re.match(r"^[\w\-]+$", k)
is_plain_word(k) == k # <<>> /\ \A i \in 1..Len(k) : k[i] \in WordChar \cup {"-"}

\* Line 48: the pattern of a key.
glossary_pattern(k) == IF is_plain_word(k) THEN Cat(<<WordB, Lit(k), WordB>>) ELSE Lit(k)

\* re.sub(pattern, v, out): the matches ms[i..], left to right, replaced by v;
\* pos is the offset the copy has reached.
RECURSIVE sub_matches(_, _, _, _, _)
sub_matches(out, ms, i, pos, v) ==
    IF i > Len(ms) THEN Slice(out, pos, Len(out))
    ELSE Slice(out, pos, ms[i].s) \o v \o sub_matches(out, ms, i + 1, ms[i].e, v)

re_sub(pattern, v, out) == sub_matches(out, finditer(pattern, out, 0), 1, 0, v)

\* sorted(glossary.keys(), key=len, reverse=True): the sort is stable, so keys
\* of one length keep their dict order.
RECURSIVE insert_by_len(_, _)
insert_by_len(sorted, e) ==
    IF sorted = <<>> THEN <<e>>
    ELSE IF Len(Head(sorted).k) >= Len(e.k) THEN <<Head(sorted)>> \o insert_by_len(Tail(sorted), e)
         ELSE <<e>> \o sorted

RECURSIVE sorted_by_len(_, _)
sorted_by_len(glossary, n) ==
    IF n = 0 THEN <<>> ELSE insert_by_len(sorted_by_len(glossary, n - 1), glossary[n])

\* Lines 43-49: the first n keys of the sorted glossary applied.
RECURSIVE glossary_loop(_, _, _)
glossary_loop(text, keys, n) ==
    IF n = 0 THEN text
    ELSE IF strip(keys[n].k) = <<>> THEN glossary_loop(text, keys, n - 1)
         ELSE re_sub(glossary_pattern(keys[n].k), keys[n].v, glossary_loop(text, keys, n - 1))

apply_glossary_hard(text, glossary) ==
    IF glossary = <<>> THEN text
    ELSE glossary_loop(text, sorted_by_len(glossary, Len(glossary)), Len(glossary))

(***************************************************************************)
(* The XLSX adapter: translate_workbook_bytes_openpyxl                     *)
(* (xlsm_translate.py:126-247).  A worksheet is a grid of nrows x ncols    *)
(* cells, the extent ws.max_row x ws.max_column of the cells that exist; a *)
(* cell that exists and is empty holds None.                               *)
(***************************************************************************)
XlMaxSheets == 2      \* most sheets of a workbook
XlRows == 2           \* rows of a sheet of the model
XlCols == 3           \* columns of a sheet of the model
XlMaxBatchSize == 2   \* largest batch_size argument

\* ws.cell(row=r, column=3): column C
COLUMN_C == 3
\* if cell.column == 7: column G
PREFERRED_AFIO_COLUMN == 7

\* Cell values: None, a number, a str, a formula (a str of data type "f").
XlNone == [t |-> "none", v |-> <<>>]

XlNumber == [t |-> "n", v |-> <<"5">>]

XlStr(s) == [t |-> "s", v |-> s]

XlFormula(s) == [t |-> "f", v |-> s]

\* isinstance(v, str)
is_str(value) == value.t \in {"s", "f"}

\* What the value setter of a cell stores for a Python value: a str that
\* starts with "=" becomes a formula.
cell_value_set(value) ==
    IF value.t \in {"s", "f"}
    THEN IF value.v # <<>> /\ Head(value.v) = "=" THEN XlFormula(value.v) ELSE XlStr(value.v)
    ELSE value

\* CellRange
CellRange(min_row, max_row, min_col, max_col) ==
    [min_row |-> min_row, max_row |-> max_row, min_col |-> min_col, max_col |-> max_col]

\* ws.cell(row, column) and iter_rows create the cells they visit: the grid
\* grows to hold (r, c), the new cells empty.
grown(ws, r, c) ==
    [ws EXCEPT !.nrows = Max({ws.nrows, r}),
               !.ncols = Max({ws.ncols, c}),
               !.cells = [rc \in (1..Max({ws.nrows, r})) \X (1..Max({ws.ncols, c})) |->
                             IF rc \in DOMAIN ws.cells THEN ws.cells[rc] ELSE XlNone]]

\* iter_rows over every range of ranges.
RECURSIVE iter_ranges(_, _, _)
iter_ranges(ws, ranges, n) ==
    IF n = 0 THEN ws
    ELSE grown(iter_ranges(ws, ranges, n - 1), ranges[n].max_row, ranges[n].max_col)

\* The cells of a range in iter_rows order, row by row.
RECURSIVE range_cells(_, _, _)
range_cells(cr, r, c) ==
    IF r > cr.max_row THEN <<>>
    ELSE IF c > cr.max_col THEN range_cells(cr, r + 1, cr.min_col)
    ELSE <<<<r, c>>>> \o range_cells(cr, r, c + 1)

\* The cells of all ranges, range after range.
RECURSIVE ranges_cells(_, _)
ranges_cells(ranges, i) ==
    IF i > Len(ranges) THEN <<>>
    ELSE range_cells(ranges[i], ranges[i].min_row, ranges[i].min_col)
         \o ranges_cells(ranges, i + 1)

\* Mutant: a sheet without a print area is given the range A1.
_parse_print_area_defaulting(print_area) ==
    IF print_area = <<>> THEN <<CellRange(1, 1, 1, 1)>>
    ELSE [i \in 1..Len(print_area) |-> print_area[i].range]

\* _parse_print_area (lines 21-34): the parts of the print area string, each
\* with or without a sheet prefix and $ signs, as CellRanges.
_parse_print_area(print_area) == [i \in 1..Len(print_area) |-> print_area[i].range]

\* Mutant: only the first range is looked at.
_cell_in_ranges_first_only(r, c, ranges) ==
    /\ ranges[1].min_row <= r /\ r <= ranges[1].max_row
    /\ ranges[1].min_col <= c /\ c <= ranges[1].max_col

\* _cell_in_ranges (lines 37-41)
_cell_in_ranges(r, c, ranges) ==
    \E i \in 1..Len(ranges) :
        /\ ranges[i].min_row <= r /\ r <= ranges[i].max_row
        /\ ranges[i].min_col <= c /\ c <= ranges[i].max_col

\* _union_bounds (lines 44-49)
_union_bounds(ranges) ==
    CellRange(Min({ranges[i].min_row : i \in 1..Len(ranges)}),
              Max({ranges[i].max_row : i \in 1..Len(ranges)}),
              Min({ranges[i].min_col : i \in 1..Len(ranges)}),
              Max({ranges[i].max_col : i \in 1..Len(ranges)}))

\* _unmerge_outside_union (lines 52-69)
_unmerge_outside_union(ws, u) ==
    [ws EXCEPT !.merged =
        {mr \in ws.merged :
            /\ mr.min_row >= u.min_row /\ mr.max_row <= u.max_row
            /\ mr.min_col >= u.min_col /\ mr.max_col <= u.max_col}]

NBSP == "U+00A0"

\* str.upper() of one character
upper_char(c) ==
    IF c \in Range(Lower) THEN Upper[CHOOSE j \in 1..26 : Lower[j] = c] ELSE c

\* re.sub(r"\s+", " ", s): every run of white space becomes one blank.
RECURSIVE collapse_spaces(_)
collapse_spaces(s) ==
    IF s = <<>> THEN <<>>
    ELSE IF Head(s) \in Space
         THEN <<" ">> \o collapse_spaces(lstrip(s))
         ELSE <<Head(s)>> \o collapse_spaces(Tail(s))

\* s.rstrip(" .:;,-")
RECURSIVE rstrip_punct(_)
rstrip_punct(s) ==
    IF s # <<>> /\ s[Len(s)] \in {" ", ".", ":", ";", ",", "-"}
    THEN rstrip_punct(SubSeq(s, 1, Len(s) - 1))
    ELSE s

\* s.replace("\u00A0", " ")
replace_nbsp(s) == [j \in 1..Len(s) |-> IF s[j] = NBSP THEN " " ELSE s[j]]

\* str.upper()
upper(s) == [j \in 1..Len(s) |-> upper_char(s[j])]

\* _norm (lines 14-18)
_norm(s) == rstrip_punct(collapse_spaces(upper(strip(replace_nbsp(s)))))

AFIO == <<"A","F","I","O">>

NA_COR == <<"N","A"," ","C","O","R">>

\* Lines 114-118 over the cells of the ranges: (found, found_col7).
RECURSIVE afio_scan(_, _, _)
afio_scan(ws, cells, n) ==
    IF n = 0 THEN <<>>
    ELSE IF is_str(ws.cells[cells[n]]) /\ _norm(ws.cells[cells[n]].v) = AFIO
         THEN Append(afio_scan(ws, cells, n - 1), cells[n])
         ELSE afio_scan(ws, cells, n - 1)

RECURSIVE in_column(_, _)
in_column(found, col) ==
    IF found = <<>> THEN <<>>
    ELSE IF Head(found)[2] = col THEN <<Head(found)>> \o in_column(Tail(found), col)
         ELSE in_column(Tail(found), col)

\* _find_afio_headers (lines 104-119), on a sheet whose ranges have been visited.
prefer_column(found, found_col7) == IF found_col7 # <<>> THEN found_col7 ELSE found

found_headers(found) == prefer_column(found, in_column(found, PREFERRED_AFIO_COLUMN))

_find_afio_headers(ws, ranges) ==
    found_headers(afio_scan(ws, ranges_cells(ranges, 1), Len(ranges_cells(ranges, 1))))

\* _under_any_afio_header (lines 122-123)
_under_any_afio_header(r, c, headers) ==
    \E i \in 1..Len(headers) : c = headers[i][2] /\ r > headers[i][1]

\* item_id = f"{ws.title}!{cell.coordinate}"
item_id(title, rc) == [sheet |-> title, coordinate |-> rc]

\* Mutant: formulas are collected too.
extract_cell_takes_formulas(st, title, rc, value, afio_headers) ==
    IF ~is_str(value) THEN st
    ELSE IF strip(value.v) = <<>> THEN st
    ELSE IF /\ afio_headers # <<>>
            /\ _under_any_afio_header(rc[1], rc[2], afio_headers)
            /\ _norm(value.v) = NA_COR
         THEN [st EXCEPT !.na_cor_targets = Append(@, rc)]
         ELSE [st EXCEPT !.items = Append(@, TranslationItem(item_id(title, rc), value.v)),
                         !.coords = Append(@, [item_id |-> item_id(title, rc),
                                               r |-> rc[1], c |-> rc[2]])]

\* Lines 177-198 for one cell: what it adds to items, coords, na_cor_targets.
extract_cell(st, title, rc, value, afio_headers) ==
    IF ~is_str(value) THEN st
    ELSE IF strip(value.v) = <<>> THEN st
    ELSE IF value.t = "f" \/ Head(strip(value.v)) = "=" THEN st
    ELSE IF /\ afio_headers # <<>>
            /\ _under_any_afio_header(rc[1], rc[2], afio_headers)
            /\ _norm(value.v) = NA_COR
         THEN [st EXCEPT !.na_cor_targets = Append(@, rc)]
         ELSE [st EXCEPT !.items = Append(@, TranslationItem(item_id(title, rc), value.v)),
                         !.coords = Append(@, [item_id |-> item_id(title, rc),
                                               r |-> rc[1], c |-> rc[2]])]

\* Lines 166-198: the first n cells of the ranges.
RECURSIVE extract_cells(_, _, _, _)
extract_cells(ws, cells, n, afio_headers) ==
    IF n = 0 THEN [items |-> <<>>, coords |-> <<>>, na_cor_targets |-> <<>>]
    ELSE extract_cell(extract_cells(ws, cells, n - 1, afio_headers),
                      ws.title, cells[n], ws.cells[cells[n]], afio_headers)

extract_xlsx_items(ws, ranges, afio_headers) ==
    extract_cells(ws, ranges_cells(ranges, 1), Len(ranges_cells(ranges, 1)), afio_headers)

\* _chunk_list (lines 98-101)
RECURSIVE chunk_slices(_, _, _)
chunk_slices(items, chunk_size, i) ==
    IF i >= Len(items) THEN <<>>
    ELSE <<SubSeq(items, i + 1, Min({i + chunk_size, Len(items)}))>>
         \o chunk_slices(items, chunk_size, i + chunk_size)

_chunk_list(items, chunk_size) ==
    IF chunk_size <= 0 THEN <<items>> ELSE chunk_slices(items, chunk_size, 0)

\* ws.cell(row=r, column=c).value = value
set_cell(ws, r, c, value) ==
    [grown(ws, r, c) EXCEPT !.cells[<<r, c>>] = cell_value_set(value)]

\* Mutant: an item without a translation is written as the empty string.
write_back_one_empties(ws, coord, mapping, glossary) ==
    IF coord.item_id \in DOMAIN mapping
    THEN set_cell(ws, coord.r, coord.c,
                  XlStr(apply_glossary_hard(mapping[coord.item_id], glossary)))
    ELSE set_cell(ws, coord.r, coord.c, XlStr(<<>>))

\* Lines 224-227: the first n coords written back.
write_back_one(ws, coord, mapping, glossary) ==
    IF coord.item_id \in DOMAIN mapping
    THEN set_cell(ws, coord.r, coord.c,
                  XlStr(apply_glossary_hard(mapping[coord.item_id], glossary)))
    ELSE ws

RECURSIVE write_back(_, _, _, _, _)
write_back(ws, coords, mapping, glossary, n) ==
    IF n = 0 THEN ws
    ELSE write_back_one(write_back(ws, coords, mapping, glossary, n - 1),
                        coords[n], mapping, glossary)

\* Lines 230-232: the first n NA COR targets overwritten with column C.
copy_column_c(ws, rc) ==
    set_cell(ws, rc[1], rc[2],
             IF ws.cells[<<rc[1], COLUMN_C>>] = XlNone THEN XlStr(<<>>)
             ELSE ws.cells[<<rc[1], COLUMN_C>>])

afio_one(ws, rc) == copy_column_c(grown(ws, rc[1], COLUMN_C), rc)

RECURSIVE afio_copy(_, _, _)
afio_copy(ws, targets, n) ==
    IF n = 0 THEN ws ELSE afio_one(afio_copy(ws, targets, n - 1), targets[n])

\* Lines 235-240: every cell of the union that lies in no range is emptied.
cleared_grid(ws, u, ranges) ==
    [ws EXCEPT !.cells =
        [rc \in DOMAIN ws.cells |->
            IF /\ u.min_row <= rc[1] /\ rc[1] <= u.max_row
               /\ u.min_col <= rc[2] /\ rc[2] <= u.max_col
               /\ ~_cell_in_ranges(rc[1], rc[2], ranges)
            THEN XlNone
            ELSE ws.cells[rc]]]

clear_outside_ranges(ws, u, ranges) == cleared_grid(grown(ws, u.max_row, u.max_col), u, ranges)

\* ws.delete_rows(idx, amount): the rows idx .. idx+amount-1 go and the rows
\* below move up.
delete_rows(ws, idx, amount) ==
    [ws EXCEPT !.nrows = ws.nrows - amount,
               !.cells = [rc \in (1..(ws.nrows - amount)) \X (1..ws.ncols) |->
                             IF rc[1] < idx THEN ws.cells[rc]
                             ELSE ws.cells[<<rc[1] + amount, rc[2]>>]]]

\* ws.delete_cols(idx, amount)
delete_cols(ws, idx, amount) ==
    [ws EXCEPT !.ncols = ws.ncols - amount,
               !.cells = [rc \in (1..ws.nrows) \X (1..(ws.ncols - amount)) |->
                             IF rc[2] < idx THEN ws.cells[rc]
                             ELSE ws.cells[<<rc[1], rc[2] + amount>>]]]

\* Lines 74-77
crop_rows_below(ws, max_row) ==
    IF ws.nrows > max_row THEN delete_rows(ws, max_row + 1, ws.nrows - max_row) ELSE ws

crop_rows_above(ws, min_row) ==
    IF min_row > 1 THEN delete_rows(ws, 1, min_row - 1) ELSE ws

\* Lines 79-82
crop_cols_right(ws, max_col) ==
    IF ws.ncols > max_col THEN delete_cols(ws, max_col + 1, ws.ncols - max_col) ELSE ws

crop_cols_left(ws, min_col) ==
    IF min_col > 1 THEN delete_cols(ws, 1, min_col - 1) ELSE ws

\* Lines 84-95: the print titles go, the print area becomes $A$1:$<last>.
reset_print_settings(ws) ==
    [ws EXCEPT !.print_titles = FALSE,
               !.print_area = <<[prefixed |-> FALSE,
                                 range |-> CellRange(1, ws.nrows, 1, ws.ncols)]>>]

\* Mutant: the columns left of the union are kept.
_crop_sheet_to_union_keeps_left(ws, u) ==
    reset_print_settings(
        crop_cols_right(
            crop_rows_above(crop_rows_below(ws, u.max_row), u.min_row),
            u.max_col))

\* _crop_sheet_to_union (lines 72-95)
_crop_sheet_to_union(ws, u) ==
    reset_print_settings(
        crop_cols_left(
            crop_cols_right(
                crop_rows_above(crop_rows_below(ws, u.max_row), u.min_row),
                u.max_col),
            u.min_col))

\* The cell values of the model's sheets: None, a text, a text _norm turns
\* into NA COR, one it turns into AFIO, blanks, a number, a formula.
XlValues ==
    { XlNone,
      XlStr(<<"a","l","c","a">>),
      XlStr(<<"n","a"," ","c","o","r",".">>),
      XlStr(<<"A","f","i","o",":">>),
      XlStr(<<" "," ">>),
      XlNumber,
      XlFormula(<<"=","A","1">>) }

\* A sheet of XlRows x XlCols cells with a at A1, b at A2 and c at C2.
XlGrid(a, b, c) ==
    [rc \in (1..XlRows) \X (1..XlCols) |->
        IF rc = <<1, 1>> THEN a
        ELSE IF rc = <<2, 1>> THEN b
        ELSE IF rc = <<2, 3>> THEN c
        ELSE XlNone]

\* A sheet of XlRows x PREFERRED_AFIO_COLUMN cells: XlGrid(a, b, c) with g at
\* G1 and h at G2.
XlWideGrid(a, b, c, g, h) ==
    [rc \in (1..XlRows) \X (1..PREFERRED_AFIO_COLUMN) |->
        IF rc = <<1, PREFERRED_AFIO_COLUMN>> THEN g
        ELSE IF rc = <<2, PREFERRED_AFIO_COLUMN>> THEN h
        ELSE IF rc[2] <= XlCols THEN XlGrid(a, b, c)[rc]
        ELSE XlNone]

\* XlGrid(a, b, c) with d at B2.
XlGridB(a, b, c, d) ==
    [rc \in (1..XlRows) \X (1..XlCols) |-> IF rc = <<2, 2>> THEN d ELSE XlGrid(a, b, c)[rc]]

\* The columns of a grid of XlRows rows.
grid_cols(cells) ==
    CHOOSE n \in 1..(XlCols + PREFERRED_AFIO_COLUMN) : DOMAIN cells = (1..XlRows) \X (1..n)

XlSheet(cells, print_area, merged) ==
    [title |-> <<"S">>, print_area |-> print_area, nrows |-> XlRows,
     ncols |-> grid_cols(cells), cells |-> cells, merged |-> merged, print_titles |-> TRUE]

XlPart(prefixed, min_row, max_row, min_col, max_col) ==
    [prefixed |-> prefixed, range |-> CellRange(min_row, max_row, min_col, max_col)]

\* Print areas: none; the whole grid; column A; row 2; the two cells A1 and C2;
\* B2:C2, below and right of A1; A1:A2 with A2:C2, which share A2; columns A
\* and C with the gap column B between them; A1:C3, one row more than the
\* sheet has.
XlWholeArea == <<XlPart(TRUE, 1, 2, 1, 3)>>

XlInnerArea == <<XlPart(TRUE, 2, 2, 2, 3)>>

XlOverlappingArea == <<XlPart(TRUE, 1, 2, 1, 1), XlPart(TRUE, 2, 2, 1, 3)>>

XlGapArea == <<XlPart(TRUE, 1, 2, 1, 1), XlPart(FALSE, 1, 2, 3, 3)>>

XlTallArea == <<XlPart(TRUE, 1, XlRows + 1, 1, 3)>>

XlPrintAreas ==
    { <<>>,
      XlWholeArea,
      <<XlPart(FALSE, 1, 2, 1, 1)>>,
      <<XlPart(FALSE, 2, 2, 1, 3)>>,
      <<XlPart(TRUE, 1, 1, 1, 1), XlPart(TRUE, 2, 2, 3, 3)>>,
      XlInnerArea,
      XlOverlappingArea,
      XlGapArea,
      XlTallArea }

\* The print area A1:G2 of a wide sheet.
XlWideArea == <<XlPart(TRUE, 1, 2, 1, PREFERRED_AFIO_COLUMN)>>

\* Merged ranges: B1:C1, which column A's union does not hold.
XlMergedChoices == { {}, {CellRange(1, 1, 2, 3)} }

\* Sheets that vary the values, and sheets that vary the print area and the
\* merged ranges.
XlAlcaText == XlStr(<<"a","l","c","a">>)

XlNaCorText == XlStr(<<"n","a"," ","c","o","r",".">>)

XlAfioText == XlStr(<<"A","f","i","o",":">>)

XlLayouts ==
    { XlGrid(XlAlcaText, XlAlcaText, XlAlcaText),
      XlGrid(XlAfioText, XlNaCorText, XlNumber),
      XlGrid(XlNumber, XlFormula(<<"=","A","1">>), XlNone),
      XlGrid(XlNone, XlAlcaText, XlAlcaText),
      XlGridB(XlAlcaText, XlAlcaText, XlAlcaText, XlAlcaText),
      XlGridB(XlAfioText, XlNaCorText, XlAlcaText, XlNumber) }

\* Wide sheets: an AFIO header in column G alone, and one in column A too.
XlWideLayouts ==
    { XlWideGrid(XlAlcaText, XlAlcaText, XlAlcaText, XlAfioText, XlNaCorText),
      XlWideGrid(XlAfioText, XlNaCorText, XlAlcaText, XlAfioText, XlNaCorText),
      XlWideGrid(XlAfioText, XlNaCorText, XlAlcaText, XlNone, XlNone) }

XlSheets ==
    {XlSheet(XlGrid(a, b, c), XlWholeArea, {}) : a \in XlValues, b \in XlValues, c \in XlValues}
    \cup {XlSheet(g, pa, m) : g \in XlLayouts, pa \in XlPrintAreas, m \in XlMergedChoices}
    \cup {XlSheet(g, XlWideArea, {}) : g \in XlWideLayouts}

\* The sheets of a workbook of several sheets.
XlPlainSheets ==
    {XlSheet(g, pa, {}) :
        g \in {XlGrid(XlStr(<<"a","l","c","a">>), XlStr(<<"a","l","c","a">>), XlNone),
               XlGrid(XlNumber, XlNone, XlNone)},
        pa \in {<<>>, XlWholeArea}}

\* The sheets of a workbook have distinct titles.
XlTitled(sheets) ==
    [i \in 1..Len(sheets) |-> [sheets[i] EXCEPT !.title = <<"S">> \o Decimal(i)]]

\* The workbooks: one sheet of any layout, several plain sheets, or no
\* worksheet at all (wb.worksheets leaves out chartsheets).
XlWorkbooks ==
    {XlTitled(<<s>>) : s \in XlSheets}
    \cup {XlTitled(ss) : ss \in SeqsUpTo(XlPlainSheets, XlMaxSheets) \ {<<>>}}
    \cup {<<>>}

\* The glossaries of the model.
XlGlossaries == { <<>>, <<[k |-> <<"a","l","c","a">>, v |-> <<"s","t","r","a","p">>]>> }

\* The bytes of a workbook: the program that wrote them, its sheets, and
\* whether they carry a VBA project.
XlsxBytes(writer, sheets, vba) == [writer |-> writer, sheets |-> sheets, vba |-> vba]

\* The workbooks handed to the adapter: every one as an .xlsm with a VBA
\* project, those of plain sheets also without one.
XlInputs ==
    {XlsxBytes("other", wb, TRUE) : wb \in XlWorkbooks}
    \cup {XlsxBytes("other", XlTitled(ss), FALSE) :
              ss \in SeqsUpTo(XlPlainSheets, XlMaxSheets) \ {<<>>}}

\* on_progress(label, done, total)
ProgressCall(label, done, total) == [label |-> label, done |-> done, total |-> total]

\* A callback returns or raises.
CallbackOutcomes == {"returns", "raises"}

\* Mutant: the length itself, without the floor of 1.
AtLeastOne_no_floor(n) == n

\* max(1, len(x))
AtLeastOne(n) == Max({1, n})

XlNoBytes == XlsxBytes("none", <<>>, FALSE)

XlIdle ==
    /\ xl_workbook_bytes = XlNoBytes
    /\ xl_glossary = <<>>
    /\ xl_batch_size = 0
    /\ xl_keep_vba = FALSE
    /\ xl_wb = <<>>
    /\ xl_s_idx = 0
    /\ xl_ranges = <<>>
    /\ xl_items = <<>>
    /\ xl_coords = <<>>
    /\ xl_na_cor_targets = <<>>
    /\ xl_batches = <<>>
    /\ xl_b_idx = 0
    /\ xl_mapping = EmptyDict
    /\ xl_progress = <<>>
    /\ xl_calls = 0
    /\ xl_sent = {}
    /\ xl_failed = 0
    /\ xl_returned = 0
    /\ xl_exc = "none"
    /\ xl_out = XlNoBytes
    /\ xl_pc = "idle"

\* The call translate_workbook_bytes_openpyxl(workbook_bytes, translator, ...,
\* glossary, ..., on_progress, batch_size) with a callback.
XlInit ==
    /\ xl_workbook_bytes \in XlInputs
    /\ xl_glossary \in XlGlossaries
    /\ xl_batch_size \in 0..XlMaxBatchSize
    /\ xl_keep_vba = FALSE
    /\ xl_wb = <<>>
    /\ xl_s_idx = 0
    /\ xl_ranges = <<>>
    /\ xl_items = <<>>
    /\ xl_coords = <<>>
    /\ xl_na_cor_targets = <<>>
    /\ xl_batches = <<>>
    /\ xl_b_idx = 0
    /\ xl_mapping = EmptyDict
    /\ xl_progress = <<>>
    /\ xl_calls = 0
    /\ xl_sent = {}
    /\ xl_failed = 0
    /\ xl_returned = 0
    /\ xl_exc = "none"
    /\ xl_out = XlNoBytes
    /\ xl_pc = "call"

xlInputs == <<xl_workbook_bytes, xl_glossary, xl_batch_size>>

\* The locals of the pass of the sheet loop.
xlSheetLocals == <<xl_ranges, xl_items, xl_coords, xl_na_cor_targets, xl_batches, xl_b_idx,
                   xl_mapping>>

\* The exception of callee leaves the adapter: nothing catches it.
XlRaised(callee) ==
    /\ xl_pc' = "raised"
    /\ xl_exc' = callee
    /\ UNCHANGED <<xlInputs, xl_keep_vba, xl_wb, xl_s_idx, xlSheetLocals, xl_returned, xl_out>>

\* A progress call returns or raises.
XlProgressCalled(pc) ==
    \E cb \in CallbackOutcomes :
        /\ xl_pc' = IF cb = "returns" THEN pc ELSE "raised"
        /\ xl_exc' = IF cb = "returns" THEN "none" ELSE "on_progress"

\* Lines 142-150: load_workbook with keep_vba=True or, when that raises, with
\* keep_vba=False; then the first progress call.
XlLoad ==
    /\ xl_pc = "call"
    /\ xl_keep_vba' \in BOOLEAN
    /\ xl_wb' = xl_workbook_bytes.sheets
    /\ xl_s_idx' = 1
    /\ xl_progress' =
           <<ProgressCall("pages", 0, AtLeastOne(Len(xl_workbook_bytes.sheets)))>>
    /\ XlProgressCalled("sheet")
    /\ UNCHANGED <<xlInputs, xlSheetLocals, xl_calls, xl_sent, xl_failed, xl_returned, xl_out>>
    /\ UNCHANGED exceptXl

\* Lines 142-145: the second load_workbook raises too.
XlLoadRaises ==
    /\ xl_pc = "call"
    /\ XlRaised("load_workbook")
    /\ UNCHANGED <<xl_progress, xl_calls, xl_sent, xl_failed>>
    /\ UNCHANGED exceptXl

\* The sheet the loop is at.
xl_ws == xl_wb[xl_s_idx]

XlAtSheet == xl_pc = "sheet" /\ xl_s_idx <= Len(xl_wb)

XlSheetProgress ==
    Append(xl_progress, ProgressCall("pages", xl_s_idx, AtLeastOne(Len(xl_wb))))

\* Lines 153-154: the progress call of the sheet raises.
XlSheetProgressRaises ==
    /\ XlAtSheet
    /\ xl_progress' = XlSheetProgress
    /\ XlRaised("on_progress")
    /\ UNCHANGED <<xl_calls, xl_sent, xl_failed>>
    /\ UNCHANGED exceptXl

\* Lines 153-158: a sheet without a print area is passed over.
XlSheetSkip ==
    /\ XlAtSheet
    /\ _parse_print_area(xl_ws.print_area) = <<>>
    /\ xl_progress' = XlSheetProgress
    /\ xl_s_idx' = xl_s_idx + 1
    /\ UNCHANGED <<xlInputs, xl_keep_vba, xl_wb, xlSheetLocals, xl_calls, xl_sent, xl_failed,
                   xl_returned, xl_exc, xl_out, xl_pc>>
    /\ UNCHANGED exceptXl

\* Lines 160-163: the sheet with the merges outside the union undone and the
\* cells of the ranges visited.
prepared_sheet(ws, ranges) ==
    iter_ranges(_unmerge_outside_union(ws, _union_bounds(ranges)), ranges, Len(ranges))

\* Lines 153-203 for a sheet ws with the print area ranges: the sheet is
\* prepared, its items are collected and chunked, the batch progress starts.
XlPrepared(ws, ranges, ex, batches) ==
    /\ xl_wb' = [xl_wb EXCEPT ![xl_s_idx] = ws]
    /\ xl_ranges' = ranges
    /\ xl_items' = ex.items
    /\ xl_coords' = ex.coords
    /\ xl_na_cor_targets' = ex.na_cor_targets
    /\ xl_batches' = batches
    /\ xl_b_idx' = 1
    /\ xl_mapping' = EmptyDict
    /\ xl_returned' = 0
    /\ xl_progress' = XlSheetProgress
                      \o <<ProgressCall("batches", 0, AtLeastOne(Len(batches)))>>
    /\ XlProgressCalled("batches")

XlExtracted(ws, ranges, ex) == XlPrepared(ws, ranges, ex, _chunk_list(ex.items, xl_batch_size))

XlPreparedSheet(ws, ranges) ==
    XlExtracted(ws, ranges, extract_xlsx_items(ws, ranges, _find_afio_headers(ws, ranges)))

XlSheetPrepare ==
    /\ XlAtSheet
    /\ _parse_print_area(xl_ws.print_area) # <<>>
    /\ XlPreparedSheet(prepared_sheet(xl_ws, _parse_print_area(xl_ws.print_area)),
                       _parse_print_area(xl_ws.print_area))
    /\ UNCHANGED <<xlInputs, xl_keep_vba, xl_s_idx, xl_calls, xl_sent, xl_failed, xl_out>>
    /\ UNCHANGED exceptXl

XlAtBatch == xl_pc = "batches" /\ xl_b_idx <= Len(xl_batches)

XlBatchProgress ==
    Append(xl_progress, ProgressCall("batches", xl_b_idx - 1, AtLeastOne(Len(xl_batches))))

\* Lines 207-208: the progress call before the batch raises.
XlBatchProgressRaises ==
    /\ XlAtBatch
    /\ xl_progress' = XlBatchProgress
    /\ XlRaised("on_progress")
    /\ UNCHANGED <<xl_calls, xl_sent, xl_failed>>
    /\ UNCHANGED exceptXl

\* Lines 207-221, one pass of the loop: translate_batch returns a mapping,
\* then the progress call after the batch.
XlBatchReturns ==
    /\ XlAtBatch
    /\ \E answered \in SUBSET BatchIds(xl_batches[xl_b_idx]) :
          xl_mapping' = dict_update(xl_mapping, batch_map(xl_batches[xl_b_idx], answered))
    /\ xl_calls' = xl_calls + 1
    /\ xl_sent' = xl_sent \cup Range(xl_batches[xl_b_idx])
    /\ xl_returned' = xl_returned + 1
    /\ xl_b_idx' = xl_b_idx + 1
    /\ xl_progress' = Append(XlBatchProgress,
                             ProgressCall("batches", xl_b_idx, AtLeastOne(Len(xl_batches))))
    /\ XlProgressCalled("batches")
    /\ UNCHANGED <<xlInputs, xl_keep_vba, xl_wb, xl_s_idx, xl_ranges, xl_items, xl_coords,
                   xl_na_cor_targets, xl_batches, xl_failed, xl_out>>
    /\ UNCHANGED exceptXl

\* Lines 210-218: translate_batch raises after its retries; nothing catches it.
XlBatchRaises ==
    /\ XlAtBatch
    /\ xl_progress' = XlBatchProgress
    /\ xl_calls' = xl_calls + 1
    /\ xl_sent' = xl_sent \cup Range(xl_batches[xl_b_idx])
    /\ xl_failed' = xl_failed + 1
    /\ XlRaised("translate_batch")
    /\ UNCHANGED exceptXl

\* Lines 223-227: the translations are written back, after the loop.
XlWriteBack ==
    /\ xl_pc = "batches"
    /\ xl_b_idx > Len(xl_batches)
    /\ xl_wb' = [xl_wb EXCEPT ![xl_s_idx] =
                     write_back(xl_ws, xl_coords, xl_mapping, xl_glossary, Len(xl_coords))]
    /\ xl_pc' = "written"
    /\ UNCHANGED <<xlInputs, xl_keep_vba, xl_s_idx, xlSheetLocals, xl_progress, xl_calls, xl_sent,
                   xl_failed, xl_returned, xl_exc, xl_out>>
    /\ UNCHANGED exceptXl

\* Lines 229-232: the NA COR cells under an AFIO header take column C's value.
XlAfio ==
    /\ xl_pc = "written"
    /\ xl_wb' = [xl_wb EXCEPT ![xl_s_idx] =
                     afio_copy(xl_ws, xl_na_cor_targets, Len(xl_na_cor_targets))]
    /\ xl_pc' = "afio"
    /\ UNCHANGED <<xlInputs, xl_keep_vba, xl_s_idx, xlSheetLocals, xl_progress, xl_calls, xl_sent,
                   xl_failed, xl_returned, xl_exc, xl_out>>
    /\ UNCHANGED exceptXl

\* Lines 234-240
XlClear ==
    /\ xl_pc = "afio"
    /\ xl_wb' = [xl_wb EXCEPT ![xl_s_idx] =
                     clear_outside_ranges(xl_ws, _union_bounds(xl_ranges), xl_ranges)]
    /\ xl_pc' = "cleared"
    /\ UNCHANGED <<xlInputs, xl_keep_vba, xl_s_idx, xlSheetLocals, xl_progress, xl_calls, xl_sent,
                   xl_failed, xl_returned, xl_exc, xl_out>>
    /\ UNCHANGED exceptXl

\* Line 243, and the loop goes to the next sheet, which assigns the locals
\* anew before it reads them.
XlCrop ==
    /\ xl_pc = "cleared"
    /\ xl_wb' = [xl_wb EXCEPT ![xl_s_idx] =
                     _crop_sheet_to_union(xl_ws, _union_bounds(xl_ranges))]
    /\ xl_s_idx' = xl_s_idx + 1
    /\ xl_ranges' = <<>>
    /\ xl_items' = <<>>
    /\ xl_coords' = <<>>
    /\ xl_na_cor_targets' = <<>>
    /\ xl_batches' = <<>>
    /\ xl_b_idx' = 0
    /\ xl_mapping' = EmptyDict
    /\ xl_returned' = 0
    /\ xl_pc' = "sheet"
    /\ UNCHANGED <<xlInputs, xl_keep_vba, xl_progress, xl_calls, xl_sent, xl_failed, xl_exc, xl_out>>
    /\ UNCHANGED exceptXl

\* Lines 245-247: wb.save(out); return out.getvalue().  The VBA project is
\* written when the workbook was loaded with keep_vba=True.
XlSave ==
    /\ xl_pc = "sheet"
    /\ xl_s_idx > Len(xl_wb)
    /\ xl_out' = XlsxBytes("openpyxl", xl_wb, xl_workbook_bytes.vba /\ xl_keep_vba)
    /\ xl_pc' = "returned"
    /\ UNCHANGED <<xlInputs, xl_keep_vba, xl_wb, xl_s_idx, xlSheetLocals, xl_progress,
                   xl_calls, xl_sent, xl_failed, xl_returned, xl_exc>>
    /\ UNCHANGED exceptXl

XlNext ==
    \/ XlLoad
    \/ XlLoadRaises
    \/ XlSheetProgressRaises
    \/ XlSheetSkip
    \/ XlSheetPrepare
    \/ XlBatchProgressRaises
    \/ XlBatchReturns
    \/ XlBatchRaises
    \/ XlWriteBack
    \/ XlAfio
    \/ XlClear
    \/ XlCrop
    \/ XlSave

(***************************************************************************)
(* translate_workbook_to_english (app.py:569-598), the function the        *)
(* TECHPACK TRANSLATOR page calls (app.py:780), and its helpers            *)
(* (app.py:458-566).                                                       *)
(***************************************************************************)
\* The sheets of the model: sheets without formulas, which load_workbook
\* reads the same with data_only=True; one has a print area of two parts.
TwMaxSheets == 2

TwMaxLines == 3

\* sheet_name[:31]
SHEET_NAME_LIMIT == 31

TwSheets ==
    XlPlainSheets \cup {XlSheet(XlGrid(XlAlcaText, XlAlcaText, XlAlcaText), XlGapArea, {})}

TwInputs ==
    {XlsxBytes("other", XlTitled(ss), FALSE) : ss \in SeqsUpTo(TwSheets, TwMaxSheets) \ {<<>>}}

\* The value None of a Python variable that holds bounds or a table.
TwNone == [none |-> TRUE]

\* get_print_area_bounds (lines 458-470): the first area only.
get_print_area_bounds(ws) ==
    IF ws.print_area = <<>> THEN TwNone ELSE ws.print_area[1].range

\* ws.cell(row=r, column=c).value
cell_value(ws, r, c) == IF <<r, c>> \in DOMAIN ws.cells THEN ws.cells[<<r, c>>] ELSE XlNone

\* Lines 479-487
table_of(ws, b) ==
    [i \in 1..(b.max_row - b.min_row + 1) |->
        [j \in 1..(b.max_col - b.min_col + 1) |->
            cell_value(ws, b.min_row + i - 1, b.min_col + j - 1)]]

\* extract_print_area_table (lines 473-487)
extract_print_area_table(ws) ==
    IF get_print_area_bounds(ws) = TwNone THEN TwNone
    ELSE table_of(ws, get_print_area_bounds(ws))

\* " ".join(cells)
RECURSIVE join_spaces(_)
join_spaces(cells) ==
    IF cells = <<>> THEN <<>>
    ELSE IF Len(cells) = 1 THEN cells[1]
    ELSE cells[1] \o <<" ">> \o join_spaces(Tail(cells))

\* [""] * n
empty_cells(n) == [j \in 1..n |-> <<>>]

\* Lines 552-557: the cells of a line padded, or the extras merged into the
\* last cell.
fitted_cells(cells, expected_cols) ==
    IF Len(cells) < expected_cols THEN cells \o empty_cells(expected_cols - Len(cells))
    ELSE IF Len(cells) > expected_cols
    THEN SubSeq(cells, 1, expected_cols - 1)
         \o <<join_spaces(SubSeq(cells, expected_cols, Len(cells)))>>
    ELSE cells

\* Lines 560-564: the rows padded or trimmed to the row count of the table.
fitted_rows(rows, n, expected_cols) ==
    IF Len(rows) < n THEN rows \o [i \in 1..(n - Len(rows)) |-> empty_cells(expected_cols)]
    ELSE SubSeq(rows, 1, n)

expected_cols_of(table) == Max({Len(table[i]) : i \in 1..Len(table)})

\* translate_table_with_openai (lines 510-566) for a response whose text has
\* the given lines, each split at the TABs.
translated_table(table, lines) ==
    fitted_rows([i \in 1..Len(lines) |-> fitted_cells(lines[i], expected_cols_of(table))],
                Len(table), expected_cols_of(table))

\* The lines of a response: a translated cell, three of them, four with an
\* empty one.
TwLineChoices ==
    { << <<"t">> >>, << <<"t">>, <<"t">>, <<"t">> >>, << <<"t">>, <<>>, <<"t">>, <<"t">> >> }

TwResponses == SeqsUpTo(TwLineChoices, TwMaxLines)

\* wb_out.create_sheet(title=sheet_name[:31])
create_sheet(title) ==
    [title |-> SubSeq(title, 1, Min({Len(title), SHEET_NAME_LIMIT})), print_area |-> <<>>,
     nrows |-> 0, ncols |-> 0, cells |-> [rc \in {} |-> XlNone], merged |-> {},
     print_titles |-> FALSE]

\* write_table_to_sheet (lines 490-496): the cells of row r from column c on.
RECURSIVE write_row(_, _, _, _), write_rows(_, _, _)
write_row(ws, row, r, c) ==
    IF c > Len(row) THEN ws
    ELSE IF row[c] = <<>> THEN write_row(ws, row, r, c + 1)
    ELSE write_row(set_cell(ws, r, c, XlStr(row[c])), row, r, c + 1)

write_rows(ws, table, r) ==
    IF r > Len(table) THEN ws
    ELSE write_rows(write_row(ws, table[r], r, 1), table, r + 1)

write_table_to_sheet(ws_out, table) == write_rows(ws_out, table, 1)

TwIdle ==
    /\ tw_file_bytes = XlNoBytes
    /\ tw_wb_in = <<>>
    /\ tw_wb_out = <<>>
    /\ tw_idx = 0
    /\ tw_processed_any = FALSE
    /\ tw_calls = 0
    /\ tw_exc = "none"
    /\ tw_out = XlNoBytes
    /\ tw_pc = "idle"

\* The call translate_workbook_to_english(file_bytes, api_key, model_name).
TwInit ==
    /\ tw_file_bytes \in TwInputs
    /\ tw_wb_in = <<>>
    /\ tw_wb_out = <<>>
    /\ tw_idx = 0
    /\ tw_processed_any = FALSE
    /\ tw_calls = 0
    /\ tw_exc = "none"
    /\ tw_out = XlNoBytes
    /\ tw_pc = "call"

\* An exception leaves the function: it has no try/except.
TwRaised(exc) ==
    /\ tw_exc' = exc
    /\ tw_pc' = "raised"
    /\ UNCHANGED <<tw_file_bytes, tw_wb_in, tw_wb_out, tw_idx, tw_processed_any, tw_out>>

\* Lines 571-579
TwOpen ==
    /\ tw_pc = "call"
    /\ tw_wb_in' = tw_file_bytes.sheets
    /\ tw_wb_out' = <<>>
    /\ tw_idx' = 1
    /\ tw_processed_any' = FALSE
    /\ tw_pc' = "sheet"
    /\ UNCHANGED <<tw_file_bytes, tw_calls, tw_exc, tw_out>>
    /\ UNCHANGED exceptTw

\* Lines 571, 577: load_workbook or get_openai_client raises.
TwOpenRaises ==
    /\ tw_pc = "call"
    /\ \E exc \in {"load_workbook", "get_openai_client"} : TwRaised(exc)
    /\ UNCHANGED tw_calls
    /\ UNCHANGED exceptTw

TwAtSheet == tw_pc = "sheet" /\ tw_idx <= Len(tw_wb_in)

tw_ws_in == tw_wb_in[tw_idx]

\* Lines 581-586: a sheet without a print area is passed over, and no sheet
\* of wb_out is created for it.
TwSheetSkip ==
    /\ TwAtSheet
    /\ extract_print_area_table(tw_ws_in) = TwNone
    /\ tw_idx' = tw_idx + 1
    /\ UNCHANGED <<tw_file_bytes, tw_wb_in, tw_wb_out, tw_processed_any, tw_calls, tw_exc,
                   tw_out, tw_pc>>
    /\ UNCHANGED exceptTw

\* Lines 581-591: the table of the print area is translated and written to a
\* new sheet of wb_out.
TwSheetTranslated ==
    /\ TwAtSheet
    /\ extract_print_area_table(tw_ws_in) # TwNone
    /\ \E lines \in TwResponses :
          tw_wb_out' =
              Append(tw_wb_out,
                     write_table_to_sheet(
                         create_sheet(tw_ws_in.title),
                         translated_table(extract_print_area_table(tw_ws_in), lines)))
    /\ tw_calls' = tw_calls + 1
    /\ tw_processed_any' = TRUE
    /\ tw_idx' = tw_idx + 1
    /\ UNCHANGED <<tw_file_bytes, tw_wb_in, tw_exc, tw_out, tw_pc>>
    /\ UNCHANGED exceptTw

\* Line 588: client.responses.create raises.
TwTranslateRaises ==
    /\ TwAtSheet
    /\ extract_print_area_table(tw_ws_in) # TwNone
    /\ tw_calls' = tw_calls + 1
    /\ TwRaised("responses.create")
    /\ UNCHANGED exceptTw

\* Lines 593-594: no sheet had a print area.
TwNoneProcessed ==
    /\ tw_pc = "sheet"
    /\ tw_idx > Len(tw_wb_in)
    /\ ~tw_processed_any
    /\ TwRaised("ValueError")
    /\ UNCHANGED tw_calls
    /\ UNCHANGED exceptTw

\* Lines 596-598
TwSave ==
    /\ tw_pc = "sheet"
    /\ tw_idx > Len(tw_wb_in)
    /\ tw_processed_any
    /\ tw_out' = XlsxBytes("openpyxl", tw_wb_out, FALSE)
    /\ tw_pc' = "returned"
    /\ UNCHANGED <<tw_file_bytes, tw_wb_in, tw_wb_out, tw_idx, tw_processed_any, tw_calls,
                   tw_exc>>
    /\ UNCHANGED exceptTw

TwNext ==
    \/ TwOpen
    \/ TwOpenRaises
    \/ TwSheetSkip
    \/ TwSheetTranslated
    \/ TwTranslateRaises
    \/ TwNoneProcessed
    \/ TwSave

(***************************************************************************)
(* parse_glossary_lines (text_utils.py:105-125) and apply_glossary_hard    *)
(* (text_utils.py:33-50) as a caller uses them: a glossary typed as lines  *)
(* is parsed, then enforced on a text.                                     *)
(***************************************************************************)
GlMaxLines == 2

\* The lines of the model: entries with the separators "=", "=>" and "->", a
\* longer key that holds a shorter one, a comment, a blank line, a line
\* without separator, lines without key or without value.
GlLines ==
    { <<"a","l","=","x">>,
      <<"a","l"," ","c","a","=","a","l"," ","y">>,
      <<" ","a","l"," ","c","a"," ","="," ","z"," ">>,
      <<"a","l"," ","=",">"," ","x">>,
      <<"a","l"," ","-",">"," ","x">>,
      <<"#"," ","c">>,
      <<>>,
      <<"a","l">>,
      <<"=","x">>,
      <<"a","l","=">> }

\* The texts the glossary is enforced on.
GlTexts ==
    { <<"a","l"," ","c","a">>,
      <<"a","l">>,
      <<"A","L"," ","C","A",".">>,
      <<"a","l","c","a">>,
      <<"a","l"," ","c","a"," ","a","l">> }

\* "\n".join(lines)
RECURSIVE join_lines(_)
join_lines(lines) ==
    IF lines = <<>> THEN <<>>
    ELSE IF Len(lines) = 1 THEN lines[1]
    ELSE lines[1] \o <<"\n">> \o join_lines(Tail(lines))

GlRaws == {join_lines(ls) : ls \in SeqsUpTo(GlLines, GlMaxLines)}

\* s.find(c): the offset of the first c in s, or -1.
find_char(s, c) ==
    IF \E i \in 1..Len(s) : s[i] = c THEN Min({i \in 1..Len(s) : s[i] = c}) - 1 ELSE -1

\* raw.splitlines()
RECURSIVE splitlines(_)
splitlines(raw) ==
    IF raw = <<>> THEN <<>>
    ELSE IF find_char(raw, "\n") = -1 THEN <<raw>>
    ELSE <<Slice(raw, 0, find_char(raw, "\n"))>>
         \o splitlines(Slice(raw, find_char(raw, "\n") + 1, Len(raw)))

\* glossary[k] = v on a dict, which keeps the order of insertion.
dict_assign(glossary, k, v) ==
    IF \E i \in 1..Len(glossary) : glossary[i].k = k
    THEN [i \in 1..Len(glossary) |-> IF glossary[i].k = k THEN [k |-> k, v |-> v] ELSE glossary[i]]
    ELSE Append(glossary, [k |-> k, v |-> v])

\* Lines 121-124 for a stripped line that holds "=".
parse_entry(glossary, line) ==
    IF strip(Slice(line, 0, find_char(line, "="))) # <<>>
       /\ strip(Slice(line, find_char(line, "=") + 1, Len(line))) # <<>>
    THEN dict_assign(glossary,
                     strip(Slice(line, 0, find_char(line, "="))),
                     strip(Slice(line, find_char(line, "=") + 1, Len(line))))
    ELSE glossary

\* Lines 116-124 for one line.
parse_line(glossary, line) ==
    IF strip(line) = <<>> \/ Head(strip(line)) = "#" THEN glossary
    ELSE IF find_char(strip(line), "=") = -1 THEN glossary
    ELSE parse_entry(glossary, strip(line))

\* Lines 116-125: the first n lines parsed.
RECURSIVE parse_lines(_, _)
parse_lines(lines, n) ==
    IF n = 0 THEN <<>> ELSE parse_line(parse_lines(lines, n - 1), lines[n])

\* parse_glossary_lines (lines 105-125)
parse_glossary_lines(raw) ==
    IF raw = <<>> THEN <<>> ELSE parse_lines(splitlines(raw), Len(splitlines(raw)))

GlIdle ==
    /\ gl_raw = <<>>
    /\ gl_text = <<>>
    /\ gl_glossary = <<>>
    /\ gl_out = <<>>
    /\ gl_pc = "idle"

GlInit ==
    /\ gl_raw \in GlRaws
    /\ gl_text \in GlTexts
    /\ gl_glossary = <<>>
    /\ gl_out = <<>>
    /\ gl_pc = "parse"

\* glossary = parse_glossary_lines(raw)
GlParse ==
    /\ gl_pc = "parse"
    /\ gl_glossary' = parse_glossary_lines(gl_raw)
    /\ gl_pc' = "apply"
    /\ UNCHANGED <<gl_raw, gl_text, gl_out>>
    /\ UNCHANGED exceptGl

\* out = apply_glossary_hard(text, glossary)
GlApply ==
    /\ gl_pc = "apply"
    /\ gl_out' = apply_glossary_hard(gl_text, gl_glossary)
    /\ gl_pc' = "done"
    /\ UNCHANGED <<gl_raw, gl_text, gl_glossary>>
    /\ UNCHANGED exceptGl

GlNext ==
    \/ GlParse
    \/ GlApply

NcIdle ==
    /\ nc_text = <<>>
    /\ nc_components = <<>>
    /\ nc_out = [kind |-> "none", parts |-> <<>>]
    /\ nc_pc = "idle"

(***************************************************************************)
(* The specifications.                                                     *)
(***************************************************************************)
InitChunk == ChunkInit /\ CodecIdle /\ TbIdle /\ PdfIdle /\ PxIdle /\ XlIdle /\ TwIdle /\ GlIdle /\ NcIdle

SpecChunk == InitChunk /\ [][ChunkNext]_vars

InitCodec == CodecInit /\ ChunkIdle /\ TbIdle /\ PdfIdle /\ PxIdle /\ XlIdle /\ TwIdle /\ GlIdle /\ NcIdle

SpecCodec == InitCodec /\ [][CodecNext]_vars

InitBatch == TbInit /\ ChunkIdle /\ CodecIdle /\ PdfIdle /\ PxIdle /\ XlIdle /\ TwIdle /\ GlIdle /\ NcIdle

SpecBatch == InitBatch /\ [][TbNext]_vars

\* One invocation.  The body of an attempt runs to its end and the backend
\* call returns or raises (the client has a timeout), so every step of the
\* invocation is eventually taken.
SpecRetry == InitBatch /\ [][TbInvocation]_vars /\ WF_vars(TbInvocation)

InitPdf == PdfInit /\ ChunkIdle /\ CodecIdle /\ TbIdle /\ PxIdle /\ XlIdle /\ TwIdle /\ GlIdle /\ NcIdle

SpecPdf == InitPdf /\ [][PdfNext]_vars

InitPptx == PxInit /\ ChunkIdle /\ CodecIdle /\ TbIdle /\ PdfIdle /\ XlIdle /\ TwIdle /\ GlIdle /\ NcIdle

SpecPptx == InitPptx /\ [][PxNext]_vars

InitXlsx == XlInit /\ ChunkIdle /\ CodecIdle /\ TbIdle /\ PdfIdle /\ PxIdle /\ TwIdle /\ GlIdle /\ NcIdle

SpecXlsx == InitXlsx /\ [][XlNext]_vars

\* A call of translate_pptx_bytes on a presentation whose paragraphs hold
\* line breaks and fields besides runs.
InitRewrite ==
    /\ \E deck \in PxRichDecks : px_pptx_bytes = PptxBytes("other", deck)
    /\ px_max_chars \in {PxTightChars, DEFAULT_MAX_CHARS}
    /\ px_max_items \in 1..PxMaxItemsArg
    /\ px_prs = <<>>
    /\ px_items = <<>>
    /\ px_pointers = EmptyDict
    /\ px_batches = <<>>
    /\ px_b = 0
    /\ px_all_translations = EmptyDict
    /\ px_calls = 0
    /\ px_failed = 0
    /\ px_out = PptxBytes("none", <<>>)
    /\ px_pc = "call"
    /\ ChunkIdle /\ CodecIdle /\ TbIdle /\ PdfIdle /\ XlIdle /\ TwIdle /\ GlIdle /\ NcIdle

SpecRewrite == InitRewrite /\ [][PxNext]_vars

\* A call of one of the two adapters that translate in batches.
InitBatchAdapters ==
    \/ PxInit /\ XlIdle /\ ChunkIdle /\ CodecIdle /\ TbIdle /\ PdfIdle /\ TwIdle /\ GlIdle /\ NcIdle
    \/ XlInit /\ PxIdle /\ ChunkIdle /\ CodecIdle /\ TbIdle /\ PdfIdle /\ TwIdle /\ GlIdle /\ NcIdle

BatchAdaptersNext == PxNext \/ XlNext

SpecBatchAdapters == InitBatchAdapters /\ [][BatchAdaptersNext]_vars

InitTechpack ==
    TwInit /\ ChunkIdle /\ CodecIdle /\ TbIdle /\ PdfIdle /\ PxIdle /\ XlIdle /\ GlIdle /\ NcIdle

SpecTechpack == InitTechpack /\ [][TwNext]_vars

InitGlossary ==
    GlInit /\ ChunkIdle /\ CodecIdle /\ TbIdle /\ PdfIdle /\ PxIdle /\ XlIdle /\ TwIdle /\ NcIdle

SpecGlossary == InitGlossary /\ [][GlNext]_vars

\* A call of one of the two adapters that report their progress to a callback.
InitProgressAdapters ==
    \/ PdfInit /\ XlIdle /\ ChunkIdle /\ CodecIdle /\ TbIdle /\ PxIdle /\ TwIdle /\ GlIdle /\ NcIdle
    \/ XlInit /\ PdfIdle /\ ChunkIdle /\ CodecIdle /\ TbIdle /\ PxIdle /\ TwIdle /\ GlIdle /\ NcIdle

ProgressAdaptersNext == PdfNext \/ XlNext

SpecProgressAdapters == InitProgressAdapters /\ [][ProgressAdaptersNext]_vars

(***************************************************************************)
(* Claims about chunk_items.                                               *)
(***************************************************************************)
RECURSIVE SumLen(_)
SumLen(batch) == IF batch = <<>> THEN 0 ELSE Len(Head(batch).text) + SumLen(Tail(batch))

BatchWithinBounds(batch, max_chars, max_items) ==
    /\ Len(batch) <= max_items
    /\ \/ SumLen(batch) <= max_chars
       \/ Len(batch) = 1 /\ Len(batch[1].text) > max_chars

\* C1 (as stated): every produced batch has at most max_items items and a
\* cumulative text length of at most max_chars, except a batch made of a single
\* item whose own length exceeds max_chars -- for all (max_items, max_chars).
C1_BatchBounds_AllArgs ==
    ck_pc = "done" =>
        \A b \in 1..Len(ck_batches) :
            BatchWithinBounds(ck_batches[b], ck_max_chars, ck_max_items)

\* C1 (amended): the same bounds hold whenever max_items >= 1; with
\* max_items <= 0 every batch still holds exactly one item.
C1_BatchBounds ==
    ck_pc = "done" =>
        \A b \in 1..Len(ck_batches) :
            IF ck_max_items >= 1
            THEN BatchWithinBounds(ck_batches[b], ck_max_chars, ck_max_items)
            ELSE Len(ck_batches[b]) = 1

\* A call that produced a full batch (max_items items), an oversized
\* single-item batch and a batch closed by the character bound.
C1_Witness ==
    /\ ck_pc = "done"
    /\ ck_max_items >= 2
    /\ \E b \in 1..Len(ck_batches) : Len(ck_batches[b]) = ck_max_items
    /\ \E b \in 1..Len(ck_batches) :
          Len(ck_batches[b]) = 1 /\ Len(ck_batches[b][1].text) > ck_max_chars
    /\ Len(ck_batches) >= 2

\* C2: concatenating the batches in order gives exactly the input sequence.
C2_ConcatIsInput ==
    ck_pc = "done" => Flatten(ck_batches) = ck_items

\* A call that split a three-item input into several batches, one of them
\* holding two items.
C2_Witness ==
    /\ ck_pc = "done"
    /\ Len(ck_items) >= 3
    /\ Len(ck_batches) >= 2
    /\ \E b \in 1..Len(ck_batches) : Len(ck_batches[b]) >= 2
    /\ Flatten(ck_batches) = ck_items

(***************************************************************************)
(* Claims about the codec.                                                 *)
(***************************************************************************)
\* The number of occurrences of w in s that start at offset p or later.
RECURSIVE CountFrom(_, _, _)
CountFrom(s, w, p) ==
    IF p >= Len(s) THEN 0
    ELSE (IF StartsWithAt(s, w, p) THEN 1 ELSE 0) + CountFrom(s, w, p + 1)

Occurs(w, s) == CountFrom(s, w, 0) > 0

\* The rewritten text holds each placeholder of the map exactly once.
KeepsEachPlaceholderOnce(sent, map) ==
    \A i \in 1..Len(map) : CountFrom(sent, map[i].ph, 0) = 1

\* The pieces of the model are those of protect_text: same text, same map.
CodecPiecesAgree ==
    cd_pc \in {"translate", "restore", "done"} =>
        LET pieces == ProtectedPieces(cd_text)
            phs == SelectSeq(pieces, LAMBDA q : q.ph)
        IN  /\ PiecesText(pieces) = cd_pt.text
            /\ PiecesRestored(pieces) = cd_text
            /\ Len(phs) = Len(cd_pt.placeholder_to_original)
            /\ \A i \in 1..Len(phs) :
                  \E j \in 1..Len(cd_pt.placeholder_to_original) :
                     /\ cd_pt.placeholder_to_original[j].ph = phs[i].txt
                     /\ cd_pt.placeholder_to_original[j].original = phs[i].original

\* C3: for every text and every rewriting of the protected text that keeps
\* each placeholder intact exactly once, restore_protected yields the rewritten
\* text with each placeholder replaced by the substring it stood for; and
\* restore_protected(protect_text(t).text, map) = t for every text t.
C3_RoundTrip ==
    cd_pc = "done" =>
        /\ KeepsEachPlaceholderOnce(cd_sent, cd_pt.placeholder_to_original) =>
               cd_restored = PiecesRestored(Rewrite(ProtectedPieces(cd_text), cd_mode))
        /\ cd_mode = "same" => cd_restored = cd_text

\* C4: a placeholder protect_text emits occurs neither in the unprotected
\* remainder of the input text nor inside any protected original substring.
C4_NoCollision ==
    cd_pc \in {"translate", "restore", "done"} =>
        LET pieces == ProtectedPieces(cd_text)
            map == cd_pt.placeholder_to_original
        IN  \A i \in 1..Len(map) :
               /\ \A k \in 1..Len(pieces) :
                     ~pieces[k].ph => ~Occurs(map[i].ph, pieces[k].txt)
               /\ \A j \in 1..Len(map) : ~Occurs(map[i].ph, map[j].original)

(***************************************************************************)
(* Claims about the translation client.                                    *)
(***************************************************************************)
TbIdsOf(items) == {items[i].id : i \in 1..Len(items)}

\* The last row of the response that carries the id.
TbLastRow(rows, id) == rows[Max({n \in 1..Len(rows) : rows[n].id = id})]

\* C5: in translate_batch the text returned for an id is restored with the
\* restore map computed from the item that carries that id in the same call,
\* never with the map of another item, also when two items carry the same id;
\* and the dict of maps holds nothing of another call.
C5_OwnRestoreMap ==
    (tb_fn = "translate_batch" /\ tb_pc \in {"request", "parse", "returned"}) =>
        /\ DOMAIN tb_protected = TbIdsOf(tb_items)
        /\ \A i \in 1..Len(tb_items) :
              tb_protected[tb_items[i].id] = protect_text(tb_items[i].text)
        /\ tb_pc = "returned" =>
              \A id \in DOMAIN tb_result :
                 tb_result[id] =
                    restore_protected(
                        TbLastRow(tb_resp.rows, id).translated,
                        protect_text(tb_items[TbLastRow(tb_resp.rows, id).src].text)
                            .placeholder_to_original)

\* C6, the bounds: at most 4 attempts and 4 backend calls per invocation; a
\* failed attempt is followed by another only while fewer than 4 have been
\* made; the first attempt that succeeds ends the invocation with its result;
\* the invocation raises only after the 4th consecutive failure.
C6_RetryBounds ==
    /\ tb_attempt \in 1..4
    /\ tb_calls <= tb_attempt
    /\ tb_calls <= 4
    /\ tb_failures \in {tb_attempt - 1, tb_attempt}
    /\ tb_pc \in {"body", "request", "parse"} => tb_failures = tb_attempt - 1
    /\ tb_pc = "backoff" => (tb_failures = tb_attempt /\ tb_attempt < 4)
    /\ tb_pc = "raised" => (tb_failures = 4 /\ tb_attempt = 4)
    /\ tb_pc = "returned" =>
          /\ tb_failures = tb_attempt - 1
          /\ tb_calls >= 1
          /\ tb_resp.ok
          /\ tb_result = IF tb_fn = "translate_batch"
                         THEN tb_parsed(tb_resp, tb_protected).out
                         ELSE restore_protected(tb_resp.translated,
                                                tb_pt.placeholder_to_original)

\* C6: bounded retry and termination: the bounds hold throughout, a finished
\* invocation makes no further step, and every invocation returns or raises.
C6_BoundedRetry ==
    /\ []C6_RetryBounds
    /\ [][tb_pc \notin {"returned", "raised"}]_vars
    /\ <>(tb_pc \in {"returned", "raised"})

\* An invocation that raised after four failed attempts, each of which
\* reached the backend.
C6_Witness ==
    /\ tb_pc = "raised"
    /\ tb_fn = "translate_batch"
    /\ tb_attempt = 4
    /\ tb_failures = 4
    /\ tb_calls = 4


(***************************************************************************)
(* Claims about the PPTX and XLSX adapters.                                *)
(***************************************************************************)
\* The paragraph a PptxPointer points to.
PxParagraphAt(deck, ptr) ==
    deck[ptr.slide_idx + 1][ptr.shape_idx + 1].paragraphs[ptr.para_idx + 1]

\* The paragraph of a requested id after apply_pptx_translations: the one of
\* the input when no response had the id, else one whose first run holds the
\* translation.
PxKeptOrWritten(tid) ==
    IF tid \in DOMAIN px_all_translations
    THEN /\ para_runs(PxParagraphAt(px_prs, tid)) # {}
         /\ PxParagraphAt(px_prs, tid)[Min(para_runs(PxParagraphAt(px_prs, tid)))].text
                = px_all_translations[tid]
    ELSE /\ PxParagraphAt(px_prs, tid) = PxParagraphAt(px_pptx_bytes.deck, tid)
         /\ para_text(PxParagraphAt(px_prs, tid)) # <<>>

\* The cell of a requested id after the write-back loop: the str of the input
\* when no response had the id, else the translation with the glossary applied.
XlKeptOrWritten(coord) ==
    IF coord.item_id \in DOMAIN xl_mapping
    THEN xl_ws.cells[<<coord.r, coord.c>>] =
             cell_value_set(XlStr(apply_glossary_hard(xl_mapping[coord.item_id], xl_glossary)))
    ELSE /\ xl_ws.cells[<<coord.r, coord.c>>] =
                xl_workbook_bytes.sheets[xl_s_idx].cells[<<coord.r, coord.c>>]
         /\ xl_ws.cells[<<coord.r, coord.c>>].t = "s"
         /\ xl_ws.cells[<<coord.r, coord.c>>].v # <<>>

\* C7: when the translate_batch calls returned and their mappings lack a
\* requested id, the PPTX paragraph or XLSX cell of that id holds its source
\* text after write-back, the ids that were answered are written, and the
\* adapter raises only when translate_batch, the workbook load or the progress
\* callback raised.
C7_MissingIdKeepsSource ==
    /\ (px_pc \in {"save", "returned"} /\ px_items # <<>>) =>
           \A i \in 1..Len(px_items) : PxKeptOrWritten(px_items[i].id)
    /\ (px_pc = "returned" /\ px_items # <<>>) => px_out.deck = px_prs
    /\ px_pc = "raised" => px_failed > 0
    /\ xl_pc = "written" => \A i \in 1..Len(xl_coords) : XlKeptOrWritten(xl_coords[i])
    /\ xl_pc = "raised" =>
           \/ xl_exc \in {"load_workbook", "on_progress"}
           \/ xl_exc = "translate_batch" /\ xl_failed > 0

\* A sheet after write-back whose batch was answered for one id and not for
\* another.
C7_Witness ==
    /\ xl_pc = "written"
    /\ xl_calls >= 1
    /\ xl_failed = 0
    /\ \E i, j \in 1..Len(xl_coords) :
          /\ xl_coords[i].item_id \notin DOMAIN xl_mapping
          /\ xl_coords[j].item_id \in DOMAIN xl_mapping
          /\ \E b \in 1..Len(xl_batches) :
                {xl_coords[i].item_id, xl_coords[j].item_id} \subseteq BatchIds(xl_batches[b])

\* A presentation after write-back whose batch was answered for one id and
\* not for another.
C7_PptxCase ==
    /\ px_pc = "save"
    /\ px_failed = 0
    /\ \E b \in 1..Len(px_batches) :
          \E t, u \in BatchIds(px_batches[b]) :
              t \notin DOMAIN px_all_translations /\ u \in DOMAIN px_all_translations

PxNoBytes == PptxBytes("none", <<>>)

\* The state of an adapter when translations are written back or returned:
\* every translate_batch call was made and none failed.
PxAllBatchesReturned ==
    px_b > Len(px_batches) /\ px_calls = Len(px_batches) /\ px_failed = 0

XlAllBatchesReturned ==
    xl_b_idx > Len(xl_batches) /\ xl_returned = Len(xl_batches) /\ xl_failed = 0

NoPartialResults ==
    /\ px_failed > 0 =>
           px_pc = "raised" /\ px_out = PxNoBytes /\ px_prs = px_pptx_bytes.deck
    /\ px_pc = "save" => PxAllBatchesReturned
    /\ px_out # PxNoBytes => px_failed = 0
    /\ xl_failed > 0 => xl_pc = "raised" /\ xl_exc = "translate_batch" /\ xl_out = XlNoBytes
    /\ xl_pc \in {"written", "afio", "cleared"} => XlAllBatchesReturned
    /\ xl_out # XlNoBytes => xl_failed = 0

\* A step of the batch loop that changes the presentation or the workbook.
WritesBack ==
    \/ px_pc = "translate" /\ px_prs' # px_prs
    \/ xl_pc = "batches" /\ xl_wb' # xl_wb

\* C8: the presentation or the sheet is written to only after every
\* translate_batch call for it has returned, and once a translate_batch call
\* has failed the adapter has raised and returns no bytes.
C8_NoPartialBatchResults ==
    /\ []NoPartialResults
    /\ [][WritesBack => (IF px_pc = "translate" THEN PxAllBatchesReturned
                         ELSE XlAllBatchesReturned)]_vars

\* A call that raised after one batch was answered and the next one failed.
C8_Witness ==
    /\ px_pc = "raised"
    /\ px_failed = 1
    /\ px_calls >= 2
    /\ DOMAIN px_all_translations # {}
    /\ px_out = PxNoBytes

\* A workbook call that raised on a batch of its second sheet, the first
\* sheet written back in memory.
C8_XlsxCase ==
    /\ xl_pc = "raised"
    /\ xl_exc = "translate_batch"
    /\ xl_s_idx = 2
    /\ xl_calls >= 2
    /\ xl_out = XlNoBytes

(***************************************************************************)
(* Claims about the PDF adapter.                                           *)
(***************************************************************************)
\* The insert_textbox calls that wrote their text.
RECURSIVE FittingTries(_)
FittingTries(tries) ==
    IF tries = <<>> THEN <<>>
    ELSE IF Head(tries).fits
         THEN <<Head(tries).item>> \o FittingTries(Tail(tries))
         ELSE FittingTries(Tail(tries))

InsertedItems(inserted) == [n \in 1..Len(inserted) |-> inserted[n].item]

\* Once text has been inserted on a page, every item of the page has had its
\* redaction annotation added, the redactions have been applied exactly once,
\* none is pending, and what was written is on the page.
RedactedBeforeInsert(p) ==
    pdf_pages[p].tries # <<>> =>
        /\ pdf_pages[p].added = items_by_page(pdf_lines, p - 1)
        /\ pdf_pages[p].applied = 1
        /\ pdf_pages[p].pending = {}
        /\ pdf_pages[p].original \cap Range(pdf_pages[p].added) = {}
        /\ InsertedItems(pdf_pages[p].inserted) = FittingTries(pdf_pages[p].tries)

\* After an insertion on a page, no step adds or applies a redaction on it.
NoRedactionAfterInsert(p) ==
    pdf_pages[p].tries # <<>> =>
        /\ pdf_pages'[p].added = pdf_pages[p].added
        /\ pdf_pages'[p].applied = pdf_pages[p].applied
        /\ pdf_pages'[p].pending = pdf_pages[p].pending

\* C9: on every page that has items, all redaction annotations of the page
\* are added and the redactions are applied once before the first translated
\* text is inserted on that page, and no redaction is added or applied on a
\* page after any text insertion on it.
C9_RedactBeforeInsert ==
    /\ [](\A p \in DOMAIN pdf_pages : RedactedBeforeInsert(p))
    /\ [][\A p \in DOMAIN pdf_pages : NoRedactionAfterInsert(p)]_vars

\* A returned document with a page of two items, redacted once, that carries
\* an inserted translation.
C9_Witness ==
    /\ pdf_pc = "returned"
    /\ \E p \in DOMAIN pdf_pages :
          /\ Len(pdf_pages[p].added) >= 2
          /\ pdf_pages[p].applied = 1
          /\ Len(pdf_pages[p].tries) >= 2
          /\ Len(pdf_pages[p].inserted) >= 1

\* C10: when no page yields an item, translate_pdf_bytes makes no translation
\* call, adds no redaction, inserts no text, and returns the input bytes
\* unchanged.
C10_DegenerateUnchanged ==
    (/\ pdf_pc = "returned"
     /\ \A pno \in 0..(pdf_page_count - 1) : items_by_page(pdf_lines, pno) = <<>>) =>
        /\ pdf_calls = 0
        /\ \A p \in DOMAIN pdf_pages :
              /\ pdf_pages[p].added = <<>>
              /\ pdf_pages[p].applied = 0
              /\ pdf_pages[p].tries = <<>>
        /\ pdf_out = pdf_file_bytes

(***************************************************************************)
(* Sheets without a print area.                                            *)
(***************************************************************************)
\* The sheets of the input workbook that declare no print area.
XlNoPrintArea(i) == xl_workbook_bytes.sheets[i].print_area = <<>>

\* No item of the sheet titled title was handed to the translator.
XlNothingSentOf(title) == \A it \in xl_sent : it.id.sheet # title

\* C11: a sheet that declares no print area is skipped by
\* translate_workbook_bytes_openpyxl: none of its cells is sent to the
\* translator, nothing on it is modified, and it is still present in the
\* returned workbook.
C11_SheetWithoutPrintAreaSkipped ==
    \A i \in 1..Len(xl_wb) :
        XlNoPrintArea(i) =>
            /\ xl_wb[i] = xl_workbook_bytes.sheets[i]
            /\ XlNothingSentOf(xl_workbook_bytes.sheets[i].title)
            /\ xl_pc = "returned" =>
                  /\ Len(xl_out.sheets) = Len(xl_workbook_bytes.sheets)
                  /\ xl_out.sheets[i] = xl_workbook_bytes.sheets[i]

\* A returned workbook of two sheets: one without a print area that holds a
\* text, which the loop passed over, and one whose cells were sent.
C11_Witness ==
    /\ xl_pc = "returned"
    /\ xl_sent # {}
    /\ \E i \in 1..Len(xl_wb) :
          /\ XlNoPrintArea(i)
          /\ \E rc \in DOMAIN xl_wb[i].cells : is_str(xl_wb[i].cells[rc])
          /\ xl_out.sheets[i] = xl_workbook_bytes.sheets[i]

(***************************************************************************)
(* Workbooks in which no sheet declares a print area.                      *)
(***************************************************************************)
TwNoPrintAreas ==
    \A i \in 1..Len(tw_file_bytes.sheets) : tw_file_bytes.sheets[i].print_area = <<>>

XlNoPrintAreas ==
    \A i \in 1..Len(xl_workbook_bytes.sheets) : XlNoPrintArea(i)

\* translate_workbook_bytes_openpyxl on such a workbook makes no translation
\* call, raises only what load_workbook or the progress callback raises, and
\* returns the sheets of the input.
XlNoPrintAreaWorkbookKept ==
    XlNoPrintAreas =>
        /\ xl_calls = 0
        /\ xl_exc \in {"none", "load_workbook", "on_progress"}
        /\ xl_pc = "returned" => xl_out.sheets = xl_workbook_bytes.sheets

\* C12: translating a workbook in which no sheet declares a print area
\* completes without raising (the workbook once loaded and the client
\* built), makes no translation call, and returns a workbook with the same
\* sheets and cell contents as the input; stated for
\* translate_workbook_to_english.
C12_NoPrintAreaWorkbookCompletes ==
    TwNoPrintAreas =>
        /\ tw_exc \in {"none", "load_workbook", "get_openai_client"}
        /\ tw_calls = 0
        /\ tw_pc = "returned" => tw_out.sheets = tw_file_bytes.sheets

(***************************************************************************)
(* The crop to the union of the print area.                                *)
(***************************************************************************)
\* The union bounds of the print area sheet i of the input declares.
XlInputUnion(i) == _union_bounds(_parse_print_area(xl_workbook_bytes.sheets[i].print_area))

\* The sheet out is h rows by w columns and its print area is A1 to its last
\* cell.
XlExtentIs(out, h, w) ==
    /\ out.nrows = h
    /\ out.ncols = w
    /\ DOMAIN out.cells = (1..h) \X (1..w)
    /\ Len(out.print_area) = 1
    /\ out.print_area[1].range = CellRange(1, h, 1, w)

\* The sheet out is the part u of the sheet ws, moved to A1.
XlCroppedTo(ws, u, out) ==
    /\ XlExtentIs(out, u.max_row - u.min_row + 1, u.max_col - u.min_col + 1)
    /\ \A r \in u.min_row..u.max_row : \A c \in u.min_col..u.max_col :
          out.cells[<<r - u.min_row + 1, c - u.min_col + 1>>] = ws.cells[<<r, c>>]

\* The step that crops the sheet the loop is at.
XlCropStep == xl_pc = "cleared" /\ xl_pc' = "sheet"

\* C13: for a sheet whose print area has the union bounds min_row..max_row
\* and min_col..max_col, the crop leaves a sheet of exactly
\* (max_row-min_row+1) rows by (max_col-min_col+1) columns in which the cell
\* that was at (r, c) inside the union is at (r-min_row+1, c-min_col+1), and
\* the print area is A1 through the last cell; the returned workbook holds
\* the sheet with that extent.
C13_CropToUnion ==
    /\ [][XlCropStep =>
             XlCroppedTo(xl_wb[xl_s_idx], _union_bounds(xl_ranges), xl_wb'[xl_s_idx])]_vars
    /\ [](xl_pc = "returned" =>
             \A i \in 1..Len(xl_out.sheets) :
                 ~XlNoPrintArea(i) =>
                     XlExtentIs(xl_out.sheets[i],
                                XlInputUnion(i).max_row - XlInputUnion(i).min_row + 1,
                                XlInputUnion(i).max_col - XlInputUnion(i).min_col + 1))

\* A returned sheet of three columns that declared B2:C2: it is A1:B1 and
\* holds at B1 the text written to C2.
C13_Witness ==
    /\ xl_pc = "returned"
    /\ xl_sent # {}
    /\ \E i \in 1..Len(xl_out.sheets) :
          /\ xl_workbook_bytes.sheets[i].print_area = XlInnerArea
          /\ xl_workbook_bytes.sheets[i].ncols > 2
          /\ xl_out.sheets[i].nrows = 1
          /\ xl_out.sheets[i].ncols = 2
          /\ xl_out.sheets[i].cells[<<1, 2>>].t = "s"

(***************************************************************************)
(* The clearing of the cells between the ranges.                           *)
(***************************************************************************)
\* The cell rc lies in the rectangle rg.
XlInside(rc, rg) ==
    /\ rg.min_row <= rc[1] /\ rc[1] <= rg.max_row
    /\ rg.min_col <= rc[2] /\ rc[2] <= rg.max_col

XlDeclared(rc, ranges) == \E i \in 1..Len(ranges) : XlInside(rc, ranges[i])

\* The cells inside the union of ranges and outside every range.
XlBetween(ranges) ==
    {rc \in (_union_bounds(ranges).min_row.._union_bounds(ranges).max_row)
               \X (_union_bounds(ranges).min_col.._union_bounds(ranges).max_col) :
        ~XlDeclared(rc, ranges)}

\* The step that clears the cells between the ranges of the sheet.
XlClearStep == xl_pc = "afio" /\ xl_pc' = "cleared"

\* The ranges sheet i of the input declares.
XlInputRanges(i) == _parse_print_area(xl_workbook_bytes.sheets[i].print_area)

\* C14: once a sheet with a print area is processed, every cell inside the
\* union rectangle and outside every declared range is empty, in the sheet
\* cleared and in the sheet returned, and the clearing step changes no cell
\* inside a declared range, the ranges disjoint or overlapping.
C14_ClearedBetweenRanges ==
    /\ [][XlClearStep =>
             \A rc \in DOMAIN xl_wb[xl_s_idx].cells :
                 XlDeclared(rc, xl_ranges) =>
                     xl_wb'[xl_s_idx].cells[rc] = xl_wb[xl_s_idx].cells[rc]]_vars
    /\ [](xl_pc = "cleared" =>
             \A rc \in XlBetween(xl_ranges) :
                 /\ rc \in DOMAIN xl_ws.cells
                 /\ xl_ws.cells[rc] = XlNone)
    /\ [](xl_pc = "returned" =>
             \A i \in 1..Len(xl_out.sheets) :
                 ~XlNoPrintArea(i) =>
                     \A rc \in XlBetween(XlInputRanges(i)) :
                         xl_out.sheets[i].cells[<<rc[1] - XlInputUnion(i).min_row + 1,
                                                  rc[2] - XlInputUnion(i).min_col + 1>>]
                             = XlNone)

\* A sheet that declares columns A and C and holds texts at B2 and at C2,
\* after the clearing: B2 is empty and C2 holds a text.
C14_Witness ==
    /\ xl_pc = "cleared"
    /\ xl_workbook_bytes.sheets[xl_s_idx].print_area = XlGapArea
    /\ is_str(xl_workbook_bytes.sheets[xl_s_idx].cells[<<2, 2>>])
    /\ xl_ws.cells[<<2, 2>>] = XlNone
    /\ is_str(xl_ws.cells[<<2, 3>>])

(***************************************************************************)
(* The items of a sheet.                                                   *)
(***************************************************************************)
\* A string value that is not a formula: neither the formula data type nor
\* a text that starts with "=".
XlPlainString(value) == value.t = "s" /\ (value.v = <<>> \/ Head(value.v) # "=")

\* A string value that is not a formula and is not blank.
XlTranslatable(value) ==
    /\ value.t = "s"
    /\ strip(value.v) # <<>>
    /\ Head(strip(value.v)) # "="

\* The sheet of the input the loop is at.
xl_ws_in == xl_workbook_bytes.sheets[xl_s_idx]

\* The cells of the input sheet inside a declared range.
XlDeclaredCells == {rc \in DOMAIN xl_ws_in.cells : XlDeclared(rc, xl_ranges)}

\* The states in which the items of the sheet are collected.
XlCollected == xl_pc \in {"batches", "written", "afio", "cleared"}

\* The collected items are those of the cells of the set cells, each keyed
\* by sheet and coordinate and carrying the value of its cell.
XlItemsAre(cells) ==
    /\ {xl_items[k].id : k \in 1..Len(xl_items)} = {item_id(xl_ws_in.title, rc) : rc \in cells}
    /\ \A k \in 1..Len(xl_items) :
          xl_items[k].text = xl_ws_in.cells[xl_items[k].id.coordinate].v

\* Every item sent is a cell of a declared range of its sheet that holds a
\* string value that is not a formula.
XlSentOnlyDeclaredStrings ==
    \A it \in xl_sent :
        \E i \in 1..Len(xl_workbook_bytes.sheets) :
            /\ xl_workbook_bytes.sheets[i].title = it.id.sheet
            /\ it.id.coordinate \in DOMAIN xl_workbook_bytes.sheets[i].cells
            /\ XlDeclared(it.id.coordinate, XlInputRanges(i))
            /\ XlPlainString(xl_workbook_bytes.sheets[i].cells[it.id.coordinate])
            /\ it.text = xl_workbook_bytes.sheets[i].cells[it.id.coordinate].v

\* The step that writes the translations of the sheet back.
XlWriteBackStep == xl_pc = "batches" /\ xl_pc' = "written"

\* The write-back changes only cells of declared ranges that held a string
\* value that is not a formula.
XlOverwritesOnlyDeclaredStrings ==
    XlWriteBackStep =>
        \A rc \in DOMAIN xl_wb'[xl_s_idx].cells :
            (rc \notin DOMAIN xl_ws.cells \/ xl_wb'[xl_s_idx].cells[rc] # xl_ws.cells[rc]) =>
                /\ rc \in XlDeclaredCells
                /\ XlPlainString(xl_ws_in.cells[rc])

XlNormIs(ws, rc, target) ==
    /\ rc \in DOMAIN ws.cells
    /\ ws.cells[rc].t = "s"
    /\ _norm(ws.cells[rc].v) = target

\* The AFIO header cells inside the ranges.
XlAfioHeaders(ws, ranges) ==
    {hc \in DOMAIN ws.cells : XlDeclared(hc, ranges) /\ XlNormIs(ws, hc, AFIO)}

\* The cell rc is in a declared range, in the column of an AFIO header and
\* in a row below it, and holds NA COR.
XlNaCorUnderAfio(ws, ranges, rc) ==
    /\ XlDeclared(rc, ranges)
    /\ XlNormIs(ws, rc, NA_COR)
    /\ \E hc \in XlAfioHeaders(ws, ranges) : hc[2] = rc[2] /\ hc[1] < rc[1]

\* No NA COR cell under an AFIO header was sent to the translator.
XlNaCorNeverSent ==
    \A it \in xl_sent :
        \A i \in 1..Len(xl_workbook_bytes.sheets) :
            xl_workbook_bytes.sheets[i].title = it.id.sheet =>
                ~XlNaCorUnderAfio(xl_workbook_bytes.sheets[i], XlInputRanges(i),
                                  it.id.coordinate)

\* The step that copies column C.
XlAfioStep == xl_pc = "written" /\ xl_pc' = "afio"

\* What a cell takes from column C of the row r of the sheet ws.
XlColumnCValue(ws, r) ==
    IF <<r, COLUMN_C>> \notin DOMAIN ws.cells \/ ws.cells[<<r, COLUMN_C>>] = XlNone
    THEN XlStr(<<>>)
    ELSE ws.cells[<<r, COLUMN_C>>]

\* The step after the write-back gives every NA COR cell under an AFIO header
\* the value column C of its row then holds.
XlNaCorTakesColumnC ==
    XlAfioStep =>
        \A rc \in DOMAIN xl_ws_in.cells :
            (XlNaCorUnderAfio(xl_ws_in, xl_ranges, rc) /\ rc[2] # COLUMN_C) =>
                xl_wb'[xl_s_idx].cells[rc] = XlColumnCValue(xl_ws, rc[1])

\* C16: a cell in a declared range, in the column of an AFIO header cell and
\* in a row below it, whose normalised value is NA COR, is never sent to the
\* translator, and after the write-back of the sheet and before the clearing
\* and the crop it takes the value column C of its row then holds, or the
\* empty string when column C is empty.
C16_AfioOverride ==
    /\ []XlNaCorNeverSent
    /\ [][XlNaCorTakesColumnC]_vars

\* The sheets of the input with no AFIO header in column G inside the ranges.
XlNoHeaderInColumnG ==
    \A i \in 1..Len(xl_workbook_bytes.sheets) :
        \A hc \in XlAfioHeaders(xl_workbook_bytes.sheets[i], XlInputRanges(i)) :
            hc[2] # PREFERRED_AFIO_COLUMN

\* The override holds for the workbooks without an AFIO header in column G.
XlAfioOverrideWithoutColumnG ==
    /\ [](XlNoHeaderInColumnG => XlNaCorNeverSent)
    /\ [][XlNoHeaderInColumnG => (XlNaCorTakesColumnC)]_vars

\* The override holds for the NA COR cells of column G.
XlAfioOverrideInColumnG ==
    [][(XlAfioStep /\ XlNaCorUnderAfio(xl_ws_in, xl_ranges, <<2, PREFERRED_AFIO_COLUMN>>)) =>
          xl_wb'[xl_s_idx].cells[<<2, PREFERRED_AFIO_COLUMN>>] = XlColumnCValue(xl_ws, 2)]_vars

(***************************************************************************)
(* The glossary.                                                           *)
(***************************************************************************)
\* The text a holds the text b.
GlHolds(a, b) == \E s \in 0..(Len(a) - Len(b)) : Slice(a, s, s + Len(b)) = b

\* C17: apply_glossary_hard processes the keys longest-first, so that when a
\* shorter key is part of a longer key and the text is an occurrence of the
\* longer key, the output is the target of the longer key and the
\* replacement of the shorter key is applied to no part of it.
C17_LongestKeyWins ==
    gl_pc = "done" =>
        \A l \in 1..Len(gl_glossary) : \A s \in 1..Len(gl_glossary) :
            (/\ Len(gl_glossary[s].k) < Len(gl_glossary[l].k)
             /\ GlHolds(gl_glossary[l].k, gl_glossary[s].k)
             /\ gl_text = gl_glossary[l].k) =>
                gl_out = gl_glossary[l].v

\* The longer key wins when its target holds no key of the glossary.
GlLongestKeyWinsCleanTarget ==
    gl_pc = "done" =>
        \A l \in 1..Len(gl_glossary) : \A s \in 1..Len(gl_glossary) :
            (/\ Len(gl_glossary[s].k) < Len(gl_glossary[l].k)
             /\ GlHolds(gl_glossary[l].k, gl_glossary[s].k)
             /\ gl_text = gl_glossary[l].k
             /\ ~GlHolds(gl_glossary[l].v, gl_glossary[s].k)) =>
                gl_out = gl_glossary[l].v

\* The offsets of the line at which one of the separators "=", "=>", "->"
\* starts.
GlSeparatorStarts(line) ==
    {p \in 0..(Len(line) - 1) :
        \/ line[p + 1] = "="
        \/ p + 2 <= Len(line) /\ line[p + 1] = "-" /\ line[p + 2] = ">"}

\* The length of the separator that starts at the offset p of the line.
GlSeparatorLen(line, p) ==
    IF p + 2 <= Len(line) /\ line[p + 2] = ">" THEN 2 ELSE 1

\* The source and the target of a line 'source SEP target', both trimmed.
GlSource(line) == strip(Slice(line, 0, Min(GlSeparatorStarts(line))))

GlTarget(line) ==
    strip(Slice(line,
                Min(GlSeparatorStarts(line)) + GlSeparatorLen(line, Min(GlSeparatorStarts(line))),
                Len(line)))

\* The line has the form 'source SEP target'.
GlIsEntry(line) ==
    /\ line # <<>>
    /\ Head(line) # "#"
    /\ GlSeparatorStarts(line) # {}
    /\ GlSource(line) # <<>>
    /\ GlTarget(line) # <<>>

\* The entries the lines stand for: the last line of a source gives its
\* target.
GlEntriesOf(lines) ==
    {<<GlSource(strip(lines[i])), GlTarget(strip(lines[i]))>> :
        i \in {i \in 1..Len(lines) :
                  /\ GlIsEntry(strip(lines[i]))
                  /\ \A j \in (i + 1)..Len(lines) :
                        GlIsEntry(strip(lines[j])) =>
                            GlSource(strip(lines[j])) # GlSource(strip(lines[i]))}}

GlParsedEntries == {<<gl_glossary[i].k, gl_glossary[i].v>> : i \in 1..Len(gl_glossary)}

\* C18: parse_glossary_lines maps each line of the form 'source SEP target',
\* SEP one of "=", "=>" and "->", to the entry source -> target with both
\* sides trimmed; blank lines, lines starting with "#" and lines without a
\* separator add no entry.
C18_SeparatorsAccepted ==
    gl_pc # "parse" => GlParsedEntries = GlEntriesOf(splitlines(gl_raw))

\* The lines that hold no ">" are parsed as the entries they stand for.
GlEqualsLinesParsed ==
    (gl_pc # "parse" /\ ~GlHolds(gl_raw, <<">">>)) =>
        GlParsedEntries = GlEntriesOf(splitlines(gl_raw))

(***************************************************************************)
(* Macros and the progress callback.                                       *)
(***************************************************************************)
\* C19: the adapter saves a workbook only from a load that had keep_vba
\* enabled: it never returns bytes of a workbook loaded with keep_vba off.
C19_SavedOnlyWithKeepVba == xl_pc = "returned" => xl_keep_vba

\* translate_workbook_bytes_openpyxl never raises what on_progress raised.
XlCallbackNeverAborts == [](xl_exc # "on_progress")

\* No progress call of translate_pdf_bytes ends the call: the steps at the
\* head of the page loop and at its end make no other call that raises.
PdfCallbackNeverAborts == [][~(pdf_pc = "page" /\ pdf_pc' = "raised")]_vars

\* C20: a progress callback that raises an exception, of any type and on any
\* call, never aborts the PDF adapter or the XLSX adapter.
C20_CallbackNeverAborts ==
    /\ [](xl_exc # "on_progress")
    /\ [][~(pdf_pc = "page" /\ pdf_pc' = "raised")]_vars

(***************************************************************************)
(* Claims about empty batches and oversized items of chunk_items.          *)
(***************************************************************************)
\* An item whose text is longer than max_chars.
ChunkOversized(it) == Len(it.text) > ck_max_chars

\* C23: chunk_items never emits an empty batch, an empty input gives an empty
\* list of batches, and an item whose text is longer than max_chars is the
\* only item of its batch, whatever precedes or follows it.
C23_NoEmptyBatchOversizedAlone ==
    ck_pc = "done" =>
        /\ \A b \in 1..Len(ck_batches) : ck_batches[b] # <<>>
        /\ (ck_items = <<>> => ck_batches = <<>>)
        /\ \A b \in 1..Len(ck_batches) :
              (\E k \in 1..Len(ck_batches[b]) : ChunkOversized(ck_batches[b][k]))
                  => Len(ck_batches[b]) = 1

\* A call whose input holds an oversized item between two zero-length items,
\* with a count bound that would have let them share a batch.
C23_Witness ==
    /\ ck_pc = "done"
    /\ ck_max_items >= 2
    /\ Len(ck_items) = 3
    /\ ck_items[1].text = <<>>
    /\ ChunkOversized(ck_items[2])
    /\ ck_items[3].text = <<>>
    /\ Len(ck_batches) = 3
    /\ ck_batches[2] = <<ck_items[2]>>

(***************************************************************************)
(* Claims about the overlap resolution of protect_text.  The texts are     *)
(* built from words that make patterns match at the same start, overlap,   *)
(* and match fewer than 3 characters.                                      *)
(***************************************************************************)
OverlapMaxWords == 4    \* most words in a source text

OverlapWords ==
    { <<"A","1","2","3","4","5">>,
      <<" ","6","7">>,
      <<"1","0">>,
      <<" ","x"," ","1","0">>,
      <<" ","c","m">>,
      <<"$","5">>,
      <<" ">> }

OverlapTexts == {Flatten(ws) : ws \in SeqsUpTo(OverlapWords, OverlapMaxWords)}

InitOverlap ==
    /\ cd_text \in OverlapTexts
    /\ cd_pt = [text |-> <<>>, placeholder_to_original |-> <<>>]
    /\ cd_mode = "same"
    /\ cd_sent = <<>>
    /\ cd_restored = <<>>
    /\ cd_pc = "protect"
    /\ ChunkIdle /\ TbIdle /\ PdfIdle /\ PxIdle /\ XlIdle /\ TwIdle /\ GlIdle /\ NcIdle

SpecOverlap == InitOverlap /\ [][CodecNext]_vars

\* Every match of every pattern in the text, whatever its length.
RawMatches(text) ==
    UNION {Range(finditer(PROTECT_PATTERNS[n], text, 0)) : n \in 1..Len(PROTECT_PATTERNS)}

\* The candidate matches: the matches of 3 characters or more.
Candidates(text) == {m \in RawMatches(text) : m.e - m.s >= 3}

\* The spans a placeholder stands for, read off the protected text: the text
\* is the source with each span replaced by its placeholder.
SpanOf(m) == [s |-> m.s, e |-> m.e]

Overlaps(a, b) == a.s < b.e /\ b.s < a.e

\* a is visited before b: ascending start, for equal starts descending length.
VisitedBefore(a, b) == a.s < b.s \/ (a.s = b.s /\ a.e > b.e)

\* A set of spans is the outcome of the visit: a candidate is in it exactly
\* when no span of the set visited before it, or equal to it, reaches past
\* its start.
IsVisitOutcome(K, C) ==
    /\ K \subseteq C
    /\ \A c \in C :
          c \in K <=> \A k \in K : (VisitedBefore(k, c) => k.e <= c.s)

\* C24: the spans protect_text replaces are pairwise non-overlapping; a
\* candidate is kept exactly when it starts at or after the end of the last
\* kept span of the visit by ascending start and descending length, so the
\* longest match at the earliest start is kept and every candidate that
\* overlaps a kept span is discarded; no span is shorter than 3 characters;
\* and the map has one distinct placeholder per kept span.
C24_OverlapResolution ==
    cd_pc \in {"translate", "restore", "done"} =>
        LET kept == non_overlapping(cd_text)
            K == {SpanOf(kept[i]) : i \in 1..Len(kept)}
            C == Candidates(cd_text)
            map == cd_pt.placeholder_to_original
        IN  /\ \A i, j \in 1..Len(kept) : i < j => kept[i].e <= kept[j].s
            /\ IsVisitOutcome(K, C)
            /\ \A c \in C : c \notin K => \E k \in K : Overlaps(k, c)
            /\ \A c \in C : (\A d \in C : d = c \/ VisitedBefore(c, d)) => c \in K
            /\ \A k \in K : k.e - k.s >= 3
            /\ Len(map) = Len(kept)
            /\ Cardinality({map[i].ph : i \in 1..Len(map)}) = Cardinality(K)
            /\ \A i \in 1..Len(map) :
                  map[i].original = kept[Len(kept) - i + 1].val

\* A protected text with two candidates at the same start, of which the longer
\* is kept, a discarded candidate that starts inside a kept span, and a match
\* of fewer than 3 characters.
C24_Witness ==
    /\ cd_pc = "translate"
    /\ LET kept == non_overlapping(cd_text)
           K == {SpanOf(kept[i]) : i \in 1..Len(kept)}
           C == Candidates(cd_text)
       IN  /\ \E k \in K : \E c \in C \ K : c.s = k.s /\ c.e < k.e
           /\ \E k \in K : \E c \in C \ K : k.s < c.s /\ c.s < k.e
           /\ \E m \in RawMatches(cd_text) : m.e - m.s < 3
           /\ Len(cd_pt.placeholder_to_original) = Len(kept)

(***************************************************************************)
(* Claims about which failures of translate_batch are retried.             *)
(***************************************************************************)
\* The attempt of translate_batch has its response and fails on it: the
\* output is no JSON of the schema, or a row names an id that was not requested.
TbResponseRejected ==
    /\ tb_fn = "translate_batch"
    /\ tb_pc = "parse"
    /\ (~tb_resp.ok \/ ~tb_parsed(tb_resp, tb_protected).ok)

\* C25: translate_batch retries only transient backend failures; a malformed
\* response, or a response row naming an id that was not requested, propagates
\* to the caller as a failure of the batch without another backend call.
C25_RejectedResponseNotRetried ==
    [][TbResponseRejected => tb_pc' = "raised"]_vars

\* What the retry decorator does with a rejected response: it is retried like
\* any other exception, and raised only when it was the 4th attempt.
TbRejectedResponseRetried ==
    [][TbResponseRejected =>
          tb_pc' = (IF tb_attempt >= STOP_AFTER_ATTEMPT THEN "raised" ELSE "backoff")]_vars

(***************************************************************************)
(* Claims about the mapping translate_batch returns.                       *)
(***************************************************************************)
TbRowIds(rows) == {rows[n].id : n \in 1..Len(rows)}

\* C28: the mapping a successful translate_batch returns has only ids of the
\* request: no row of the response it was built from names another id (such a
\* row fails the attempt), an id without a row is absent, and for an id with
\* several rows the last row is the one returned.
C28_ReturnedIdsRequested ==
    (tb_fn = "translate_batch" /\ tb_pc = "returned") =>
        /\ DOMAIN tb_result \subseteq TbIdsOf(tb_items)
        /\ TbRowIds(tb_resp.rows) \subseteq TbIdsOf(tb_items)
        /\ DOMAIN tb_result = TbRowIds(tb_resp.rows)
        /\ \A id \in DOMAIN tb_result :
              tb_result[id] =
                  restore_protected(TbLastRow(tb_resp.rows, id).translated,
                                    tb_protected[id].placeholder_to_original)

\* The failing attempt: a response with a row whose id is outside the batch
\* never makes the attempt return.
TbUnrequestedRowFailsAttempt ==
    [][(tb_fn = "translate_batch" /\ tb_pc = "parse"
          /\ ~(TbRowIds(tb_resp.rows) \subseteq TbIdsOf(tb_items)))
       => tb_pc' # "returned"]_vars

\* A returned mapping built from a response that repeats an id with two
\* different translations, of which the second is the one returned.
C28_Witness ==
    /\ tb_fn = "translate_batch"
    /\ tb_pc = "returned"
    /\ Len(tb_resp.rows) = 2
    /\ tb_resp.rows[1].id = tb_resp.rows[2].id
    /\ tb_resp.rows[1].translated # tb_resp.rows[2].translated
    /\ tb_result[tb_resp.rows[2].id] #
          restore_protected(tb_resp.rows[1].translated,
                            tb_protected[tb_resp.rows[1].id].placeholder_to_original)

(***************************************************************************)
(* Claims about the progress calls of the XLSX adapter.                    *)
(***************************************************************************)
\* No 'pages' call lies between the calls i and j of the log: both belong to
\* the same sheet.
XlSameSheetCalls(i, j) ==
    \A k \in (i + 1)..(j - 1) : xl_progress[k].label # "pages"

\* C29: every progress call of the XLSX adapter has total >= 1 and
\* 0 <= done <= total, and within one label done never decreases: 'pages'
\* across the workbook, 'batches' within one sheet.
C29_ProgressWellFormed ==
    /\ \A i \in 1..Len(xl_progress) :
          /\ xl_progress[i].total >= 1
          /\ 0 <= xl_progress[i].done
          /\ xl_progress[i].done <= xl_progress[i].total
    /\ \A i, j \in 1..Len(xl_progress) :
          (i < j /\ xl_progress[i].label = "pages" /\ xl_progress[j].label = "pages")
              => xl_progress[i].done <= xl_progress[j].done
    /\ \A i, j \in 1..Len(xl_progress) :
          (i < j /\ xl_progress[i].label = "batches" /\ xl_progress[j].label = "batches"
                 /\ XlSameSheetCalls(i, j))
              => xl_progress[i].done <= xl_progress[j].done

\* A finished call on a workbook without worksheets, reported as 0 of 1 pages.
XlEmptyWorkbookReported ==
    /\ xl_pc = "returned"
    /\ Len(xl_wb) = 0
    /\ xl_progress = <<ProgressCall("pages", 0, 1)>>

\* A finished call on a workbook of two sheets with print areas: one without
\* items, reported as 0 of 1 batches, and one translated in two batches.
C29_Witness ==
    /\ xl_pc = "returned"
    /\ Len(xl_wb) = 2
    /\ \E i \in 1..Len(xl_progress) :
          /\ xl_progress[i] = ProgressCall("batches", 0, 1)
          /\ i < Len(xl_progress)
          /\ xl_progress[i + 1].label = "pages"
    /\ \E i \in 1..Len(xl_progress) : xl_progress[i] = ProgressCall("batches", 2, 2)
    /\ \E i \in 1..Len(xl_progress) : xl_progress[i] = ProgressCall("pages", 2, 2)

(***************************************************************************)
(* Claims about the bounds of the requests the adapters submit.            *)
(***************************************************************************)
XlCharBudget == 6     \* a cumulative character budget for one request

\* The batches of the sheet that translate_batch has been called with.
XlSubmitted == {b \in 1..Len(xl_batches) : b < xl_b_idx}

\* C22: every request an adapter submits is a batch bounded by both a maximum
\* item count and a maximum cumulative character count, a single oversized
\* item excepted; here for the batches the XLSX adapter builds from a sheet's
\* items, for every sheet content and batch_size.
C22_XlsxRequestsBounded ==
    \A b \in XlSubmitted :
        BatchWithinBounds(xl_batches[b], XlCharBudget, AtLeastOne(xl_batch_size))

\* What _chunk_list bounds: with batch_size >= 1 a request has at most
\* batch_size items, of any cumulative length; with batch_size <= 0 the only
\* request holds all items of the sheet.
XlRequestsCountBounded ==
    \A b \in XlSubmitted :
        IF xl_batch_size >= 1
        THEN Len(xl_batches[b]) \in 1..xl_batch_size
        ELSE xl_batches[b] = xl_items

(***************************************************************************)
(* Claims about the font fitting of the PDF adapter.                       *)
(***************************************************************************)
\* The insert_textbox calls made on page p for the line i, in order.
PdfTriesOf(p, i) == SelectSeq(pdf_pages[p].tries, LAMBDA t : t.item = i)

\* The lines _insert_text_fit has been called for on page p.
PdfFittedLines(p) == {pdf_pages[p].tries[n].item : n \in 1..Len(pdf_pages[p].tries)}

\* The starting size of line i: max(4.0, fontsize).
PdfStartSize(i) == Max({MIN_FONT_SIZE, pdf_lines[i].fontsize})

\* C26: the attempts of _insert_text_fit stop only when the text fits or the
\* 4.0 floor has been reached: for every starting size, if the text fits at no
\* size above the floor, an insertion at the floor size is attempted; the size
\* used is never below 4.0 nor above the starting size.
C26_FloorReached ==
    \A p \in 1..Len(pdf_pages) :
        \A i \in PdfFittedLines(p) :
            LET tries == PdfTriesOf(p, i)
            IN  /\ \A n \in 1..Len(tries) :
                      /\ tries[n].fs >= MIN_FONT_SIZE
                      /\ tries[n].fs <= PdfStartSize(i)
                /\ (\A n \in 1..Len(tries) : tries[n].fs > MIN_FONT_SIZE => ~tries[n].fits)
                      => \E n \in 1..Len(tries) : tries[n].fs = MIN_FONT_SIZE

\* What the loop does: the sizes tried stay between the floor and the starting
\* size, and the floor is tried by a text that fits at no size whenever the
\* starting size is at most 4.0 + 18 * 0.75.
PdfFitAttemptsBounded ==
    \A p \in 1..Len(pdf_pages) :
        \A i \in PdfFittedLines(p) :
            LET tries == PdfTriesOf(p, i)
            IN  /\ \A n \in 1..Len(tries) :
                      /\ tries[n].fs >= MIN_FONT_SIZE
                      /\ tries[n].fs <= PdfStartSize(i)
                /\ (PdfStartSize(i) <= MIN_FONT_SIZE + FIT_ATTEMPTS * SHRINK_STEP
                    /\ \A n \in 1..Len(tries) : ~tries[n].fits)
                      => \E n \in 1..Len(tries) : tries[n].fs = MIN_FONT_SIZE

(***************************************************************************)
(* The path of one cell through the XLSX adapter: translate_batch protects *)
(* the cell's text, the backend rewrites the protected text and keeps      *)
(* every placeholder, translate_batch restores it                          *)
(* (openai_translate.py:150-184), and the write-back enforces the glossary *)
(* on the restored text (xlsm_translate.py:223-227).                       *)
(***************************************************************************)
VerbatimMaxWords == 3    \* most words in a cell's text

\* A measurement, a code, a plain word and a space.
VerbatimWords ==
    { <<"1","0"," ","c","m">>,
      <<"A","B","1","2","3","4">>,
      <<"a","l","c","a">>,
      <<" ">> }

VerbatimTexts == {Flatten(ws) : ws \in SeqsUpTo(VerbatimWords, VerbatimMaxWords)}

\* No glossary, a glossary of a plain word, and a glossary whose key is a unit.
VerbatimGlossaries ==
    { <<>>,
      <<[k |-> <<"a","l","c","a">>, v |-> <<"s","t","r","a","p">>]>>,
      <<[k |-> <<"c","m">>, v |-> <<"c","e","n","t","i","m","e","t","e","r">>]>> }

InitVerbatim ==
    /\ cd_text \in VerbatimTexts
    /\ cd_pt = [text |-> <<>>, placeholder_to_original |-> <<>>]
    /\ cd_mode = "same"
    /\ cd_sent = <<>>
    /\ cd_restored = <<>>
    /\ cd_pc = "protect"
    /\ gl_raw = <<>>
    /\ gl_text = <<>>
    /\ gl_glossary \in VerbatimGlossaries
    /\ gl_out = <<>>
    /\ gl_pc = "idle"
    /\ ChunkIdle /\ TbIdle /\ PdfIdle /\ PxIdle /\ XlIdle /\ TwIdle /\ NcIdle

\* new_text = mapping.get(item_id);
\* ws.cell(row=r, column=c).value = apply_glossary_hard(new_text, glossary)
XlCellWriteBack ==
    /\ cd_pc = "done"
    /\ gl_pc = "idle"
    /\ gl_text' = cd_restored
    /\ gl_out' = apply_glossary_hard(cd_restored, gl_glossary)
    /\ gl_pc' = "done"
    /\ UNCHANGED <<gl_raw, gl_glossary>>
    /\ UNCHANGED exceptGl

VerbatimNext ==
    \/ CodecProtect
    \/ CodecTranslate
    \/ CodecRestore
    \/ XlCellWriteBack

SpecVerbatim == InitVerbatim /\ [][VerbatimNext]_vars

\* The protected substrings of the cell's text.
VerbatimProtected ==
    {non_overlapping(cd_text)[k].val : k \in 1..Len(non_overlapping(cd_text))}

\* C21: given a backend that returns every placeholder unchanged, each
\* protected substring of a source cell appears verbatim in the cell written
\* back, for every glossary: the glossary pass on the restored text never
\* alters a restored protected token.
C21_VerbatimInWrittenCell ==
    gl_pc = "done" => \A tok \in VerbatimProtected : GlHolds(gl_out, tok)

\* What holds: every protected substring is verbatim in the text
\* translate_batch returns, and in the written cell when no glossary key
\* matches inside a protected substring.
XlVerbatimBeforeGlossary ==
    /\ cd_pc = "done" => \A tok \in VerbatimProtected : GlHolds(cd_restored, tok)
    /\ (gl_pc = "done"
        /\ \A i \in 1..Len(gl_glossary) : \A tok \in VerbatimProtected :
              finditer(glossary_pattern(gl_glossary[i].k), tok, 0) = <<>>)
          => \A tok \in VerbatimProtected : GlHolds(gl_out, tok)

(***************************************************************************)
(* Claims about the rewrite of PPTX paragraphs.                            *)
(***************************************************************************)
\* The paragraphs of a presentation, by (slide, shape, paragraph) from 1.
PxPositions(deck) ==
    {pos \in (1..PxMaxSlides) \X (1..PxMaxShapes) \X (1..PxMaxParas) :
        /\ pos[1] <= Len(deck)
        /\ pos[2] <= Len(deck[pos[1]])
        /\ pos[3] <= Len(deck[pos[1]][pos[2]].paragraphs)}

PxParagraphOf(deck, pos) == deck[pos[1]][pos[2]].paragraphs[pos[3]]

\* The id of the paragraph at a position.
PxIdOf(deck, pos) ==
    PptxPointer(pointer_kind(deck[pos[1]][pos[2]]), pos[1] - 1, pos[2] - 1, pos[3] - 1)

\* The texts of the runs of a paragraph, in order.
PxRunTexts(paragraph) ==
    LET runs == SelectSeq(paragraph, LAMBDA e : e.tag = "r")
    IN  [i \in 1..Len(runs) |-> runs[i].text]

\* The content children of a paragraph that are no runs, in order.
PxOtherChildren(paragraph) == SelectSeq(paragraph, LAMBDA e : e.tag # "r")

\* The runs of the rewritten paragraph new, for the paragraph old and its
\* translation: the first run holds the translation, every other run is
\* empty, the number of runs is that of old, or 1 when old had none, and the
\* line breaks and fields of old are still there.
PxRunsRewritten(old, new, translated) ==
    /\ PxRunTexts(new) # <<>>
    /\ PxRunTexts(new)[1] = translated
    /\ \A i \in 2..Len(PxRunTexts(new)) : PxRunTexts(new)[i] = <<>>
    /\ Len(PxRunTexts(new)) = Max({1, Len(PxRunTexts(old))})
    /\ PxOtherChildren(new) = PxOtherChildren(old)

\* The slides and the shapes of each slide are as many as in the input, and
\* so are the paragraphs of each shape.
PxSameCounts(old, new) ==
    /\ Len(new) = Len(old)
    /\ \A s \in 1..Len(old) :
          /\ Len(new[s]) = Len(old[s])
          /\ \A sh \in 1..Len(old[s]) :
                Len(new[s][sh].paragraphs) = Len(old[s][sh].paragraphs)

PxApplied == px_pc \in {"save", "returned"} /\ px_items # <<>>

\* C27 (as stated): for each paragraph that has a translation the first run
\* holds the translation, every other run is empty and the number of runs is
\* unchanged (one run is added when there was none), so that the paragraph's
\* text equals the translation; the other paragraphs and the slide and shape
\* counts are unchanged.
C27_ParagraphTextIsTranslation ==
    PxApplied =>
        /\ PxSameCounts(px_pptx_bytes.deck, px_prs)
        /\ \A pos \in PxPositions(px_pptx_bytes.deck) :
              LET old == PxParagraphOf(px_pptx_bytes.deck, pos)
                  new == PxParagraphOf(px_prs, pos)
                  tid == PxIdOf(px_pptx_bytes.deck, pos)
              IN  IF tid \in DOMAIN px_all_translations
                  THEN /\ PxRunsRewritten(old, new, px_all_translations[tid])
                       /\ para_text(new) = px_all_translations[tid]
                  ELSE new = old

\* C27 (amended): the same, but the paragraph's text equals the translation
\* when the paragraph holds nothing but runs; the line breaks and fields of a
\* paragraph stay where they are, and their text stays in the paragraph's text.
C27_FirstRunIsTranslation ==
    PxApplied =>
        /\ PxSameCounts(px_pptx_bytes.deck, px_prs)
        /\ \A pos \in PxPositions(px_pptx_bytes.deck) :
              LET old == PxParagraphOf(px_pptx_bytes.deck, pos)
                  new == PxParagraphOf(px_prs, pos)
                  tid == PxIdOf(px_pptx_bytes.deck, pos)
              IN  IF tid \in DOMAIN px_all_translations
                  THEN /\ PxRunsRewritten(old, new, px_all_translations[tid])
                       /\ PxOtherChildren(old) = <<>>
                             => para_text(new) = px_all_translations[tid]
                       /\ PxOtherChildren(old) # <<>>
                             => para_text(new) # px_all_translations[tid]
                  ELSE new = old

\* A rewritten presentation with a picture and a text frame of two
\* paragraphs: one of two runs and a line break that has a translation, and
\* one without translation.
C27_Witness ==
    /\ PxApplied
    /\ Len(px_prs[1]) = 2
    /\ \E pos, pos2 \in PxPositions(px_pptx_bytes.deck) :
          /\ PxIdOf(px_pptx_bytes.deck, pos) \in DOMAIN px_all_translations
          /\ Len(PxRunTexts(PxParagraphOf(px_pptx_bytes.deck, pos))) = 2
          /\ PxOtherChildren(PxParagraphOf(px_pptx_bytes.deck, pos)) # <<>>
          /\ PxIdOf(px_pptx_bytes.deck, pos2) \notin DOMAIN px_all_translations
          /\ PxParagraphOf(px_pptx_bytes.deck, pos2) # <<>>
          /\ PxParagraphOf(px_prs, pos2) = PxParagraphOf(px_pptx_bytes.deck, pos2)

\* A rewritten paragraph that had a field and no run: one run was added.
PxRunAddedCase ==
    /\ PxApplied
    /\ \E pos \in PxPositions(px_pptx_bytes.deck) :
          /\ PxIdOf(px_pptx_bytes.deck, pos) \in DOMAIN px_all_translations
          /\ PxRunTexts(PxParagraphOf(px_pptx_bytes.deck, pos)) = <<>>
          /\ Len(PxRunTexts(PxParagraphOf(px_prs, pos))) = 1

(***************************************************************************)
(* normalize_and_translate_composition (app.py:105-157) with               *)
(* parse_components_for_normalization (app.py:83-102).  A percentage is    *)
(* counted in tenths of a percent; the texts of the model have at most one *)
(* decimal.  The shares p * 100 / total are compared as exact fractions.   *)
(***************************************************************************)
NcMaxComponents == 3    \* most components of a composition text

\* The percentages and the materials of the model.
NcPcts ==
    { <<"7">>, <<"2","5">>, <<"3","3">>, <<"0",".","5">>, <<"0">> }

NcDescs ==
    { <<"P","U">>,
      <<"F","i","l","l","e","r">>,
      <<"B","a","s","e"," ","F","a","b","r","i","c">> }

\* A component as it is typed, "7%PU", and a text of components.
NcTyped == {p \o <<"%">> \o d : p \in NcPcts, d \in NcDescs}

RECURSIVE join_spaced(_)
join_spaced(words) ==
    IF words = <<>> THEN <<>>
    ELSE IF Len(words) = 1 THEN words[1]
    ELSE words[1] \o <<" ">> \o join_spaced(Tail(words))

NcTexts == {join_spaced(ws) : ws \in SeqsUpTo(NcTyped, NcMaxComponents)}

\* str.lower()
lower_char(c) ==
    IF c \in Range(Upper) THEN Lower[CHOOSE j \in 1..26 : Upper[j] = c] ELSE c

lower(s) == [j \in 1..Len(s) |-> lower_char(s[j])]

\* text.replace("\n", " ")
replace_newlines(s) == [j \in 1..Len(s) |-> IF s[j] = "\n" THEN " " ELSE s[j]]

\* cleaned (lines 89-90): re.sub(r"%\s*", "% ", text.replace("\n", " "))
nc_cleaned(text) ==
    re_sub(Cat(<<Cls({"%"}), Rep(Cls(Space), 0, Unbounded)>>), <<"%", " ">>,
           replace_newlines(text))

\* \d+(?:\.\d+)?
NcNumber == Cat(<<Plus(Cls(Digit)), Opt(Cat(<<Cls({"."}), Plus(Cls(Digit))>>))>>)

\* The lookahead \d+(?:\.\d+)?\s*% of the pattern (line 94).
NcLookahead == Cat(<<NcNumber, Rep(Cls(Space), 0, Unbounded), Cls({"%"})>>)

\* [A-Za-z ()/\-] (the accented letters do not occur in the model)
NcDescChars == AsciiLetter \cup {" ", "(", ")", "/", "-"}

\* int(s) for a string of digits
RECURSIVE digits_value(_)
digits_value(s) ==
    IF s = <<>> THEN 0
    ELSE 10 * digits_value(SubSeq(s, 1, Len(s) - 1))
         + (CHOOSE n \in 0..9 : DigitChars[n + 1] = s[Len(s)])

\* float(m.group(1)), in tenths
nc_float(s) ==
    IF find_char(s, ".") = -1 THEN 10 * digits_value(s)
    ELSE 10 * digits_value(Slice(s, 0, find_char(s, ".")))
         + digits_value(Slice(s, find_char(s, ".") + 1, find_char(s, ".") + 2))

\* The lazy description [...]+? from offset d: the first end e > d at which
\* the lookahead holds, every character up to it being of the class; -1 if
\* there is none.
RECURSIVE nc_desc_end(_, _)
nc_desc_end(t, e) ==
    IF e > Len(t) THEN -1
    ELSE IF t[e] \notin NcDescChars THEN -1
    ELSE IF e = Len(t) \/ MatchEnd(NcLookahead, t, e) # -1 THEN e
    ELSE nc_desc_end(t, e + 1)

\* The greedy \s* after the percent sign gives back one character at a time
\* until the description matches: the description starts at d, h <= d.
RECURSIVE nc_desc_from(_, _, _)
nc_desc_from(t, h, d) ==
    IF d < h THEN [ok |-> FALSE, d |-> 0, e |-> 0]
    ELSE IF nc_desc_end(t, d + 1) # -1 THEN [ok |-> TRUE, d |-> d, e |-> nc_desc_end(t, d + 1)]
    ELSE nc_desc_from(t, h, d - 1)

\* The pattern of line 93 matched at offset s.  Only the longest number at s
\* can be followed by \s*%, so the shorter ones need no try.
nc_match(t, s) ==
    LET n == MatchEnd(NcNumber, t, s)
        h == IF n = -1 THEN -1
             ELSE MatchEnd(Cat(<<Rep(Cls(Space), 0, Unbounded), Cls({"%"})>>), t, n)
        m == IF h = -1 THEN [ok |-> FALSE, d |-> 0, e |-> 0]
             ELSE nc_desc_from(t, h, MatchEnd(Rep(Cls(Space), 0, Unbounded), t, h))
    IN  IF m.ok
        THEN [ok |-> TRUE, e |-> m.e,
              component |-> [pct |-> nc_float(Slice(t, s, n)),
                             desc |-> strip(Slice(t, m.d, m.e))]]
        ELSE [ok |-> FALSE, e |-> 0, component |-> [pct |-> 0, desc |-> <<>>]]

\* pattern.finditer(cleaned) from offset pos (lines 97-101)
RECURSIVE nc_finditer(_, _)
nc_finditer(t, pos) ==
    IF pos >= Len(t) THEN <<>>
    ELSE IF nc_match(t, pos).ok
         THEN <<nc_match(t, pos).component>> \o nc_finditer(t, nc_match(t, pos).e)
         ELSE nc_finditer(t, pos + 1)

\* parse_components_for_normalization(text)
parse_components_for_normalization(text) ==
    IF text = <<>> THEN <<>> ELSE nc_finditer(nc_cleaned(text), 0)

\* Lines 121-122: the component is left out of the percentage base.
nc_ignored(desc) ==
    \/ Occurs(<<"f","i","l","l","e","r">>, lower(desc))
    \/ Occurs(<<"b","a","s","e"," ","f","a","b","r","i","c">>, lower(desc))
    \/ Occurs(<<"e","n","c","h","i","m","e","n","t","o">>, lower(desc))
    \/ Occurs(<<"t","e","c","i","d","o"," ","b","a","s","e">>, lower(desc))

\* main_components (lines 118-124)
main_components(components) == SelectSeq(components, LAMBDA c : ~nc_ignored(c.desc))

RECURSIVE nc_sum(_)
nc_sum(ns) == IF ns = <<>> THEN 0 ELSE Head(ns) + nc_sum(Tail(ns))

\* total (line 130)
nc_total(main) == nc_sum([i \in 1..Len(main) |-> main[i].pct])

\* int_parts and fracs (lines 135-137): floor(p * 100 / total), and the
\* numerator of the fractional part over total.
nc_int_parts(main) == [i \in 1..Len(main) |-> (main[i].pct * 100) \div nc_total(main)]

nc_fracs(main) == [i \in 1..Len(main) |-> (main[i].pct * 100) % nc_total(main)]

\* The place of index i in sorted(range(len(fracs)), key=fracs, reverse=True),
\* from 0: the sort is stable, so equal fractions keep their order.
nc_place_desc(fracs, i) ==
    Cardinality({j \in 1..Len(fracs) : fracs[j] > fracs[i] \/ (fracs[j] = fracs[i] /\ j < i)})

\* The place of index i in sorted(range(len(fracs)), key=fracs), from 0.
nc_place_asc(fracs, i) ==
    Cardinality({j \in 1..Len(fracs) : fracs[j] < fracs[i] \/ (fracs[j] = fracs[i] /\ j < i)})

\* Mutant: the missing points go to the first components.
nc_adjusted_first_components(int_parts, fracs, diff) ==
    [i \in 1..Len(int_parts) |-> IF i <= diff THEN int_parts[i] + 1 ELSE int_parts[i]]

\* Lines 139-149: int_parts after the adjustment by diff.
nc_adjusted(int_parts, fracs, diff) ==
    [i \in 1..Len(int_parts) |->
        IF diff > 0 /\ nc_place_desc(fracs, i) < diff THEN int_parts[i] + 1
        ELSE IF diff < 0 /\ nc_place_asc(fracs, i) < -diff THEN int_parts[i] - 1
        ELSE int_parts[i]]

\* Lines 133-156 for the main components: the parts of the returned string,
\* each "{pct_int}% {material_pt}" with the material of desc.
nc_parts(main) ==
    LET adjusted == nc_adjusted(nc_int_parts(main), nc_fracs(main),
                                100 - nc_sum(nc_int_parts(main)))
    IN  [i \in 1..Len(main) |-> [pct_int |-> adjusted[i], desc |-> main[i].desc]]

\* normalize_and_translate_composition(text), given components: "" for an
\* empty text, basic_translate_freeform(text) when nothing can be normalised,
\* else the parts.
normalize_and_translate_composition(text, components) ==
    IF text = <<>> THEN [kind |-> "empty", parts |-> <<>>]
    ELSE IF components = <<>> THEN [kind |-> "freeform", parts |-> <<>>]
    ELSE IF main_components(components) = <<>> THEN [kind |-> "freeform", parts |-> <<>>]
    ELSE IF nc_total(main_components(components)) <= 0
         THEN [kind |-> "freeform", parts |-> <<>>]
    ELSE [kind |-> "parts", parts |-> nc_parts(main_components(components))]

NcInit ==
    /\ nc_text \in NcTexts
    /\ nc_components = <<>>
    /\ nc_out = [kind |-> "none", parts |-> <<>>]
    /\ nc_pc = "call"

NcCall ==
    /\ nc_pc = "call"
    /\ nc_components' = parse_components_for_normalization(nc_text)
    /\ nc_out' = normalize_and_translate_composition(
                     nc_text, parse_components_for_normalization(nc_text))
    /\ nc_pc' = "done"
    /\ UNCHANGED nc_text
    /\ UNCHANGED <<chunkVars, codecVars, tbVars, pdfVars, pxVars, xlVars, twVars, glVars>>

NcNext == NcCall

InitComposition ==
    NcInit /\ ChunkIdle /\ CodecIdle /\ TbIdle /\ PdfIdle /\ PxIdle /\ XlIdle /\ TwIdle /\ GlIdle

SpecComposition == InitComposition /\ [][NcNext]_vars

\* The indices of the parsed components that enter the percentage base, and
\* the place of such a component among them.
NcKept == {i \in 1..Len(nc_components) : ~nc_ignored(nc_components[i].desc)}

NcPlace(i) == Cardinality({j \in NcKept : j <= i})

NcKeptTotal == nc_sum([i \in 1..Len(nc_components) |->
                          IF i \in NcKept THEN nc_components[i].pct ELSE 0])

NcNormalisable == nc_pc = "done" /\ NcKept # {} /\ NcKeptTotal > 0

\* C30: whenever at least one parsed component is neither filler nor base
\* fabric and their percentages have a positive total, the integer
\* percentages emitted sum to exactly 100, each differs from its exact share
\* p * 100 / total by less than 1, the filler and base fabric components are
\* left out, and the remaining components keep their input order.
C30_NormalisedComposition ==
    NcNormalisable =>
        /\ nc_out.kind = "parts"
        /\ Len(nc_out.parts) = Cardinality(NcKept)
        /\ nc_sum([k \in 1..Len(nc_out.parts) |-> nc_out.parts[k].pct_int]) = 100
        /\ \A k \in 1..Len(nc_out.parts) : ~nc_ignored(nc_out.parts[k].desc)
        /\ \A i \in NcKept :
              LET part == nc_out.parts[NcPlace(i)]
                  off == part.pct_int * NcKeptTotal - nc_components[i].pct * 100
              IN  /\ part.desc = nc_components[i].desc
                  /\ off < NcKeptTotal
                  /\ -off < NcKeptTotal

\* "7%PU 33%Filler 25%PU": the filler is left out and 21.875 / 78.125
\* become 22 and 78, the missing point going to the larger fraction.
C30_Witness ==
    /\ NcNormalisable
    /\ nc_text = <<"7","%","P","U"," ","3","3","%","F","i","l","l","e","r"," ",
                   "2","5","%","P","U">>
    /\ Len(nc_components) = 3
    /\ nc_out.parts = << [pct_int |-> 22, desc |-> <<"P","U">>],
                         [pct_int |-> 78, desc |-> <<"P","U">>] >>

\* A point is given to an earlier component of equal fraction before a later
\* one: 33 / 33 / 33 of 99 become 34, 33, 33.
NcTieKeepsOrder ==
    /\ nc_pc = "done"
    /\ Len(nc_out.parts) = 3
    /\ \A k \in 1..3 : nc_components[k].pct = 330
    /\ nc_out.parts[1].pct_int = 34

=============================================================================
